---- MODULE Spec2Model ----
(***************************************************************************)
(* Private-chat addressing, cache and resolver of services/posts.js        *)
(* (the private-chat section, lines 194-333), with the persistent store    *)
(* (tables private_chats and private_chat_messages) as the environment.    *)
(*                                                                         *)
(* Strings are sequences of UTF-16 code units, so that Array.prototype.sort *)
(* and Array.prototype.join are modelled by what they do on the units.     *)
(***************************************************************************)
EXTENDS Integers, Sequences, FiniteSets, TLC

\* ------------------------------------------------------------------------
\* Bounds of the model
\* ------------------------------------------------------------------------

\* Longest identifier string drawn for the key computation.
MaxLen == 2

\* Number of calls of the exported chat functions in one behaviour.
MaxCalls == 2

\* ------------------------------------------------------------------------
\* JavaScript values that reach the key computation
\* ------------------------------------------------------------------------

Str(s) == [t |-> "str", s |-> s]

JsNull == [t |-> "null", s |-> <<>>]

JsUndefined == [t |-> "undefined", s |-> <<>>]

\* Code units: '_' is 95, 'a' is 97, 'U' is 85, '1' is 49, '2' is 50.
Underscore == 95

RECURSIVE StringsOfLen(_, _)
StringsOfLen(alphabet, n) ==
    IF n = 0 THEN {<<>>}
    ELSE {<<ch>> \o s : ch \in alphabet, s \in StringsOfLen(alphabet, n - 1)}

StringsUpTo(alphabet, n) == UNION {StringsOfLen(alphabet, k) : k \in 0..n}

\* String(v) as sort applies it to an element that is not undefined.
JsToString(v) == IF v.t = "null" THEN <<110, 117, 108, 108>> ELSE v.s

\* s < t on strings: lexicographic on code units, a proper prefix is smaller.
RECURSIVE StrLess(_, _)
StrLess(s, t) ==
    IF t = <<>> THEN FALSE
    ELSE IF s = <<>> THEN TRUE
    ELSE IF Head(s) # Head(t) THEN Head(s) < Head(t)
    ELSE StrLess(Tail(s), Tail(t))

\* The pair left as passed.
SortPairUnsorted(x, y) == <<x, y>>

\* [x, y].sort(): no comparator, so undefined goes last and the others are
\* ordered by their string conversion; equal elements keep their order.
SortPair(x, y) ==
    IF x.t = "undefined" THEN (IF y.t = "undefined" THEN <<x, y>> ELSE <<y, x>>)
    ELSE IF y.t = "undefined" THEN <<x, y>>
    ELSE IF StrLess(JsToString(y), JsToString(x)) THEN <<y, x>>
    ELSE <<x, y>>

\* The string join() writes for one element: null and undefined give ''.
JoinElement(v) == IF v.t = "str" THEN v.s ELSE <<>>

\* The two strings with nothing between them.
JoinPairNoSeparator(p) == JoinElement(p[1]) \o JoinElement(p[2])

\* [x, y].join('_')
JoinPair(p) == JoinElement(p[1]) \o <<Underscore>> \o JoinElement(p[2])

\* const key = [senderId, receiverId].sort().join('_')
cacheKey(senderId, receiverId) == JoinPair(SortPair(senderId, receiverId))

\* ------------------------------------------------------------------------
\* private_chats rows and the cache object
\* ------------------------------------------------------------------------

\* The value null where a private_chats row (or nothing) is expected.
NullChat == [id |-> 0, user_id1 |-> JsNull, user_id2 |-> JsNull]

ChatRow(id, userId1, userId2) == [id |-> id, user_id1 |-> userId1, user_id2 |-> userId2]

\* let privateChatCache = {}: an object is a function on the keys it holds.
EmptyCache == [k \in {} |-> NullChat]

\* A new object holding the one entry.
addToPrivateChatCacheAlone(cache, senderId, receiverId, value) ==
    [k \in {cacheKey(senderId, receiverId)} |-> value]

\* The cache left as it was.
addToPrivateChatCacheDropped(cache, senderId, receiverId, value) == cache

addToPrivateChatCache(cache, senderId, receiverId, value) ==
    LET key == cacheKey(senderId, receiverId)
    IN  [k \in (DOMAIN cache) \cup {key} |-> IF k = key THEN value ELSE cache[k]]

getFromPrivateChatCache(cache, senderId, receiverId) ==
    LET key == cacheKey(senderId, receiverId)
    IN  IF key \in DOMAIN cache THEN cache[key] ELSE NullChat

\* ------------------------------------------------------------------------
\* The key computation on its own: one add, then one get
\* ------------------------------------------------------------------------

\* The probe's arguments, the cache object it works on, what the get
\* returned and its position.
VARIABLES keyArgs, keyCache, keyGot, keyPc

\* privateChatCache is module state: one object per running page (session).
\* private_chats and private_chat_messages are the store's tables, shared by
\* the sessions. calls holds each call's position and locals; overlapped is
\* history: the pairs for which two resolutions were in flight at once.
VARIABLES privateChatCache, private_chats, private_chat_messages, calls, overlapped

\* The chat view (ChatPrivado): the id of the authenticated user, the position
\* of the onMounted hook, whether the component is mounted, the refs messages
\* and loadingMessages, the local unsubscribeFromChat and the realtime channel
\* subscribeToNewPrivateChatMessages opened. fetched is history: what the
\* mount-time fetch read and when.
VARIABLES authUser, viewPc, mounted, messages, loadingMessages,
          unsubscribeFromChat, chatChannel, fetched

\* The realtime subscriptions of the services, one per kind, each with a
\* consumer callback that can throw.
VARIABLES subs

\* normalizePath: its arguments, its result, the result of a second
\* application and the position.
VARIABLES npArgs, npOut, npAgain, npPc

\* The comment list of the post detail view (PostDetalle): the ref comments
\* and the realtime event its handler was last called with.
VARIABLES comments, commentEvt

\* A page with image previews (CrearPost, PostDetalle or MiPerfilEditar):
\* which page it is, the preview refs per slot (0 for null), the object URLs
\* of the document (how many were created, which are not revoked), whether a
\* submit is awaited and whether the component is mounted.
VARIABLES pvPage, imagePreview, objectUrls, pvSubmitting, pvMounted

\* The services that check their arguments (createPost, deletePost,
\* insertComment, uploadFile): the call in progress and its outcome, the
\* number of calls made, the requests sent to the backend and the backend's
\* rows and files.
VARIABLES svCall, svCalls, svRequests, backend

\* A navigation under router.beforeEach: what supabase.auth.getUser()
\* answers during it, the location the guard is run for, the guard's
\* position, and history: the redirects and lookups so far and the last
\* lookup's result.
VARIABLES session, navTo, navPc, navLog

\* Editing in the post detail view (PostDetalle): the id of
\* currentUser.value, the ref post (its sender_id), the refs editing and
\* saving (with the ids isOwner compared when saveEdit began), and history:
\* each setting of editing to true and each updatePost or deletePost
\* issued, with the ids isOwner compared.
VARIABLES currentUser, post, editing, saving, pdLog

\* The profile page (MiPerfil): the ref user of useAuthUserState
\* (perfilUser), the refs posts and loading (perfilLoading), and the
\* loadUserProfile calls started, each with its position, the id it was
\* called with and the email it filters by.
VARIABLES perfilUser, posts, perfilLoading, loads

chatVars == <<privateChatCache, private_chats, private_chat_messages, calls, overlapped>>

keyVars == <<keyArgs, keyCache, keyGot, keyPc>>

viewVars == <<authUser, viewPc, mounted, messages, loadingMessages,
              unsubscribeFromChat, chatChannel, fetched>>

subVars == <<subs>>

pathVars == <<npArgs, npOut, npAgain, npPc>>

commentVars == <<comments, commentEvt>>

previewVars == <<pvPage, imagePreview, objectUrls, pvSubmitting, pvMounted>>

serviceVars == <<svCall, svCalls, svRequests, backend>>

guardVars == <<session, navTo, navPc, navLog>>

detailVars == <<currentUser, post, editing, saving, pdLog>>

profileVars == <<perfilUser, posts, perfilLoading, loads>>

\* The state of the pages other than the chat view.
pageVars == <<commentVars, previewVars, serviceVars, guardVars, detailVars,
              profileVars>>

\* The state of the conversation services and the chat view.
coreVars == <<chatVars, keyVars, viewVars, subVars, pathVars>>

vars == <<keyArgs, keyCache, keyGot, keyPc,
          privateChatCache, private_chats, private_chat_messages, calls, overlapped,
          authUser, viewPc, mounted, messages, loadingMessages,
          unsubscribeFromChat, chatChannel, fetched, subs, npArgs, npOut, npAgain, npPc,
          pageVars>>

KeyAlphabet == {Underscore, 97}

KeyIds == {Str(s) : s \in StringsUpTo(KeyAlphabet, MaxLen)} \cup {JsNull, JsUndefined}

\* The conversation stored by the probe.
ProbeChat == ChatRow(1, Str(<<97>>), Str(<<97>>))

KeyInit ==
    /\ keyArgs \in [a : KeyIds, b : KeyIds, c : KeyIds, d : KeyIds]
    /\ keyCache = EmptyCache
    /\ keyGot = NullChat
    /\ keyPc = "start"

\* addToPrivateChatCache(a, b, v)
KeyAdd ==
    /\ keyPc = "start"
    /\ keyCache' = addToPrivateChatCache(keyCache, keyArgs.a, keyArgs.b, ProbeChat)
    /\ keyPc' = "added"
    /\ UNCHANGED <<keyArgs, keyGot>>
    /\ UNCHANGED <<chatVars, viewVars, subVars, pathVars, pageVars>>

\* getFromPrivateChatCache(c, d)
KeyGet ==
    /\ keyPc = "added"
    /\ keyGot' = getFromPrivateChatCache(keyCache, keyArgs.c, keyArgs.d)
    /\ keyPc' = "got"
    /\ UNCHANGED <<keyArgs, keyCache>>
    /\ UNCHANGED <<chatVars, viewVars, subVars, pathVars, pageVars>>

KeyNext == KeyAdd \/ KeyGet

\* ------------------------------------------------------------------------
\* The resolver and its callers against the store
\* ------------------------------------------------------------------------


Sessions == {"s1", "s2"}

Calls == 1..MaxCalls

U1 == Str(<<85, 49>>)

U2 == Str(<<85, 50>>)

\* The (senderId, receiverId) a caller passes: a pair in both orders, a user
\* with themself, and an absent sender (the chat view passes the auth user's
\* id, which is null until the auth state arrives, and the id in the route).
ArgPairs == {<<U1, U2>>, <<U2, U1>>, <<U1, U1>>, <<JsNull, U2>>}

Contents == {"hello"}

IsValidId(v) == v.t = "str" /\ v.s # <<>>

NoResp == [error |-> FALSE, chat |-> NullChat, messages |-> {}]

IdleCall ==
    [pc |-> "idle", session |-> "s1", op |-> "",
     senderId |-> JsNull, receiverId |-> JsNull, content |-> "",
     resp |-> NoResp, privateChat |-> NullChat, result |-> {}, error |-> "",
     queries |-> 0, inserts |-> 0, cacheWrites |-> 0, cacheHit |-> FALSE,
     msgRequests |-> 0, before |-> {}]

ChatInit ==
    /\ privateChatCache = [s \in Sessions |-> EmptyCache]
    /\ private_chats = {}
    /\ private_chat_messages = {}
    /\ calls = [c \in Calls |-> IdleCall]
    /\ overlapped = {}

\* const [userId1, userId2] = [senderId, receiverId].sort()
SortedIds(call) == SortPair(call.senderId, call.receiverId)

\* A resolution in flight: after its cache miss, before
\* fetchOrCreatePrivateChat returns or throws.
InWindow(call) == call.pc \in {"fetchSent", "createSent", "createReplied"}

OverlapPairs(cs) ==
    {SortedIds(cs[c]) : c \in {x \in Calls :
        /\ InWindow(cs[x])
        /\ \E y \in Calls \ {x} : InWindow(cs[y]) /\ SortedIds(cs[y]) = SortedIds(cs[x])}}

SetCall(c, call) ==
    /\ calls' = [calls EXCEPT ![c] = call]
    /\ overlapped' = overlapped \cup OverlapPairs(calls')

Step(c, call) ==
    /\ SetCall(c, call)
    /\ UNCHANGED <<keyVars, viewVars, subVars, pathVars, pageVars>>

\* The error goes on to the caller as if it had been returned as null.
ThrownSwallowed(call, where) ==
    [call EXCEPT !.pc = "msgSent", !.resp = NoResp, !.msgRequests = @ + 1,
                 !.op = IF @ = "" THEN "fetch" ELSE @]

\* throw new Error(error.message) in fetchPrivateChat or createPrivateChat:
\* neither fetchOrCreatePrivateChat nor the exported function catches it, so
\* the call ends with the error.
Thrown(call, where) == [call EXCEPT !.pc = "failed", !.error = where, !.resp = NoResp]

\* fetchOrCreatePrivateChat returns chat to its caller, which goes on in the
\* same turn: sendNewPrivateChatMessage sends its insert and
\* fetchLastPrivateChatMessages its select; subscribeToNewPrivateChatMessages
\* has the conversation and is about to open its channel.
Resolved(call, chat, op) ==
    IF op = "subscribe"
    THEN [call EXCEPT !.pc = "resolved", !.privateChat = chat, !.resp = NoResp, !.op = op]
    ELSE [call EXCEPT !.pc = "msgSent", !.privateChat = chat, !.resp = NoResp, !.op = op,
                      !.msgRequests = @ + 1]

Ops == {"send", "fetch"}

\* The exported function a call came in through. A call of Start is a send or
\* a fetch; which of the two changes nothing before the resolution returns,
\* so it is drawn there and op is "" until then.
OpsOf(call) == IF call.op = "" THEN Ops ELSE {call.op}

\* The locals of a call of an exported function made in session s.
EnterCall(s, args, txt, op) ==
    [IdleCall EXCEPT !.session = s, !.op = op, !.senderId = args[1],
                     !.receiverId = args[2], !.content = txt,
                     !.before = {x \in Calls : calls[x].pc \in {"done", "failed"}}]

\* fetchOrCreatePrivateChat up to its first await: the cache is read and,
\* on a miss, fetchPrivateChat sends its select.
CacheLookup(call, op) ==
    LET cached == getFromPrivateChatCache(privateChatCache[call.session],
                                          call.senderId, call.receiverId)
    IN  IF cached # NullChat
        THEN Resolved([call EXCEPT !.cacheHit = TRUE], cached, op)
        ELSE [call EXCEPT !.pc = "fetchSent", !.queries = @ + 1]

\* sendNewPrivateChatMessage or fetchLastPrivateChatMessages is called.
Start(c) ==
    /\ calls[c].pc = "idle"
    /\ \A x \in Calls : x < c => calls[x].pc # "idle"
    /\ \E s \in (IF c = 1 THEN {"s1"} ELSE Sessions), args \in ArgPairs,
          txt \in Contents, op \in Ops :
         Step(c, CacheLookup(EnterCall(s, args, txt, ""), op))
    /\ UNCHANGED <<privateChatCache, private_chats, private_chat_messages>>

\* Rows matching the ids in the order they were passed.
MatchingChatsUnsorted(call) ==
    {r \in private_chats : r.user_id1 = call.senderId /\ r.user_id2 = call.receiverId}

\* Rows the select of fetchPrivateChat matches.
MatchingChats(call) ==
    {r \in private_chats :
        r.user_id1 = SortedIds(call)[1] /\ r.user_id2 = SortedIds(call)[2]}

\* What the select of fetchPrivateChat can answer: an error, or the rows
\* matching both columns, of which the caller keeps data[0]. The select has
\* no order, so data[0] is any matching row. A filter on null is the store's
\* business: it may match by value or match nothing.
SelectChatResponses(call) ==
    {[NoResp EXCEPT !.error = TRUE]}
    \cup (IF MatchingChats(call) = {} THEN {NoResp}
          ELSE {[NoResp EXCEPT !.chat = r] : r \in MatchingChats(call)})
    \cup (IF JsNull \in {call.senderId, call.receiverId} THEN {NoResp} ELSE {})

\* The select of fetchPrivateChat is answered and fetchOrCreatePrivateChat
\* goes on: an error is thrown, a row found is cached and returned,
\* otherwise createPrivateChat sends its insert. (The select only reads the
\* store, and rows are never removed, so its answer is taken when the reply
\* is handled.)
FetchPrivateChatReply(c) ==
    /\ calls[c].pc = "fetchSent"
    /\ \E resp \in SelectChatResponses(calls[c]), op \in OpsOf(calls[c]) :
         LET call == calls[c]
         IN  IF resp.error
             THEN /\ Step(c, Thrown(call, "fetch"))
                  /\ UNCHANGED privateChatCache
             ELSE IF resp.chat # NullChat
             THEN /\ privateChatCache' = [privateChatCache EXCEPT ![call.session] =
                        addToPrivateChatCache(@, call.senderId, call.receiverId, resp.chat)]
                  /\ Step(c, Resolved([call EXCEPT !.cacheWrites = @ + 1], resp.chat, op))
             ELSE /\ Step(c, [call EXCEPT !.pc = "createSent", !.inserts = @ + 1])
                  /\ UNCHANGED privateChatCache
    /\ UNCHANGED <<private_chats, private_chat_messages>>

\* A row holding the ids in the order they were passed.
NewChatRowUnsorted(call) ==
    ChatRow(Cardinality(private_chats) + 1, call.senderId, call.receiverId)

\* The row createPrivateChat inserts.
NewChatRow(call) ==
    ChatRow(Cardinality(private_chats) + 1, SortedIds(call)[1], SortedIds(call)[2])

\* The store answers the insert of createPrivateChat: an error, or the row
\* is added under a fresh id and returned by .select().
StoreInsertChat(c) ==
    /\ calls[c].pc = "createSent"
    /\ \/ /\ Step(c, [calls[c] EXCEPT !.pc = "createReplied",
                                       !.resp = [NoResp EXCEPT !.error = TRUE]])
          /\ UNCHANGED private_chats
       \/ /\ private_chats' = private_chats \cup {NewChatRow(calls[c])}
          /\ Step(c, [calls[c] EXCEPT !.pc = "createReplied",
                                       !.resp = [NoResp EXCEPT !.chat = NewChatRow(calls[c])]])
    /\ UNCHANGED <<privateChatCache, private_chat_messages>>

\* createPrivateChat returns data[0] or throws; the created row is cached by
\* fetchOrCreatePrivateChat and returned.
CreatePrivateChatReply(c) ==
    /\ calls[c].pc = "createReplied"
    /\ \E op \in OpsOf(calls[c]) :
       LET call == calls[c]
       IN  IF call.resp.error
           THEN /\ Step(c, Thrown(call, "create"))
                /\ UNCHANGED privateChatCache
           ELSE /\ privateChatCache' = [privateChatCache EXCEPT ![call.session] =
                      addToPrivateChatCache(@, call.senderId, call.receiverId, call.resp.chat)]
                /\ Step(c, Resolved([call EXCEPT !.cacheWrites = @ + 1], call.resp.chat, op))
    /\ UNCHANGED <<private_chats, private_chat_messages>>

\* The message row with its chat_id left unset.
NewMessageRowNoChat(call) ==
    [id |-> Cardinality(private_chat_messages) + 1, chat_id |-> 0,
     sender_id |-> call.senderId, content |-> call.content]

\* The row sendNewPrivateChatMessage inserts.
NewMessageRow(call) ==
    [id |-> Cardinality(private_chat_messages) + 1, chat_id |-> call.privateChat.id,
     sender_id |-> call.senderId, content |-> call.content]

\* The rows the select of fetchLastPrivateChatMessages returns.
MessagesOfChat(chatId) == {m \in private_chat_messages : m.chat_id = chatId}

\* The insert of sendNewPrivateChatMessage is answered: the function throws
\* on an error and returns otherwise.
SendMessageReply(c) ==
    /\ calls[c].pc = "msgSent"
    /\ calls[c].op = "send"
    /\ \/ /\ Step(c, [calls[c] EXCEPT !.pc = "failed", !.error = "message"])
          /\ UNCHANGED private_chat_messages
       \/ /\ private_chat_messages' = private_chat_messages \cup {NewMessageRow(calls[c])}
          /\ Step(c, [calls[c] EXCEPT !.pc = "done"])
    /\ UNCHANGED <<privateChatCache, private_chats>>

\* The select of fetchLastPrivateChatMessages is answered with an error:
\* the function throws.
FetchMessagesFailed(c) ==
    /\ calls[c].pc = "msgSent"
    /\ calls[c].op = "fetch"
    /\ Step(c, [calls[c] EXCEPT !.pc = "failed", !.error = "message"])
    /\ UNCHANGED <<privateChatCache, private_chats, private_chat_messages>>

\* return data
FetchedMessages(call) ==
    [call EXCEPT !.pc = "done", !.result = MessagesOfChat(call.privateChat.id)]

\* The select of fetchLastPrivateChatMessages is answered with the rows:
\* the function returns them.
FetchMessagesReturned(c) ==
    /\ calls[c].pc = "msgSent"
    /\ calls[c].op = "fetch"
    /\ Step(c, FetchedMessages(calls[c]))
    /\ UNCHANGED <<privateChatCache, private_chats, private_chat_messages>>

FetchMessagesReply(c) == FetchMessagesFailed(c) \/ FetchMessagesReturned(c)

ChatNext ==
    \E c \in Calls :
        \/ Start(c)
        \/ FetchPrivateChatReply(c)
        \/ StoreInsertChat(c)
        \/ CreatePrivateChatReply(c)
        \/ SendMessageReply(c)
        \/ FetchMessagesReply(c)

\* ------------------------------------------------------------------------
\* The realtime channel of subscribeToNewPrivateChatMessages
\* ------------------------------------------------------------------------

\* chatChannel before supabase.channel(...) is called. state is the
\* channel's: joining once subscribe() was called, joined once the realtime
\* server has it, closed after unsubscribe(). joinedAt is the number of rows
\* private_chat_messages held when the server took the subscription, and
\* delivered the ids of the rows the payload handler was called with.
NoChannel == [state |-> "none", chat_id |-> 0, joinedAt |-> 0, delivered |-> {}]

NotFetched == [chat_id |-> 0, at |-> 0, ids |-> {}]

\* const otherId = route.params.id; the id the authentication service
\* reports for the user of the page.
OtherId == U2

ViewUser == U1

\* The call slot of the onMounted hook (its fetch, then its subscribe).
MountCall == 1

\* Sequences listing the elements of S once each.
SeqsOf(S) ==
    {q \in [1..Cardinality(S) -> S] : \A i, j \in 1..Cardinality(S) : q[i] = q[j] => i = j}

\* subscribeToAuthStateChanges(newState => user.value = newState): the
\* authenticated user arrives.
AuthStateChange ==
    /\ mounted /\ authUser = JsNull
    /\ authUser' = ViewUser
    /\ UNCHANGED <<viewPc, mounted, messages, loadingMessages, unsubscribeFromChat,
                   chatChannel, fetched>>
    /\ UNCHANGED <<chatVars, keyVars, subVars, pathVars, pageVars>>

\* onMounted up to its first await: loadingMessages is set and
\* fetchLastPrivateChatMessages(userRef.value.id, otherId) is called.
OnMounted ==
    /\ viewPc = "setup"
    /\ loadingMessages' = TRUE
    /\ viewPc' = "fetching"
    /\ SetCall(MountCall,
               CacheLookup(EnterCall("s1", <<authUser, OtherId>>, "", "fetch"), "fetch"))
    /\ UNCHANGED <<authUser, mounted, messages, unsubscribeFromChat, chatChannel, fetched>>
    /\ UNCHANGED <<privateChatCache, private_chats, private_chat_messages>>
    /\ UNCHANGED <<keyVars, subVars, pathVars, pageVars>>

\* The select of the mount-time fetch is answered with the rows and the
\* hook goes on in the same turn: messages.value = data (the select states
\* no order), loadingMessages.value = false, await nextTick().
OnFetched ==
    /\ viewPc = "fetching"
    /\ calls[MountCall].pc = "msgSent"
    /\ SetCall(MountCall, FetchedMessages(calls[MountCall]))
    /\ messages' \in SeqsOf(FetchedMessages(calls[MountCall]).result)
    /\ loadingMessages' = FALSE
    /\ fetched' = [chat_id |-> calls[MountCall].privateChat.id,
                   at |-> Cardinality(private_chat_messages),
                   ids |-> {m.id : m \in FetchedMessages(calls[MountCall]).result}]
    /\ viewPc' = "tick"
    /\ UNCHANGED <<authUser, mounted, unsubscribeFromChat, chatChannel>>
    /\ UNCHANGED <<privateChatCache, private_chats, private_chat_messages>>
    /\ UNCHANGED <<keyVars, subVars, pathVars, pageVars>>

\* After nextTick: subscribeToNewPrivateChatMessages(userRef.value.id,
\* otherId, callback) is called and resolves the conversation.
SubscribeAfterTick ==
    /\ viewPc = "tick"
    /\ viewPc' = "subscribing"
    /\ SetCall(MountCall,
               CacheLookup(EnterCall("s1", <<authUser, OtherId>>, "", "subscribe"),
                           "subscribe"))
    /\ UNCHANGED <<authUser, mounted, messages, loadingMessages, unsubscribeFromChat,
                   chatChannel, fetched>>
    /\ UNCHANGED <<privateChatCache, private_chats, private_chat_messages>>
    /\ UNCHANGED <<keyVars, subVars, pathVars, pageVars>>

\* subscribeToNewPrivateChatMessages after its await: the channel is created
\* with the filter chat_id=eq.<privateChat.id>, subscribe() is called, and
\* the function returned is what the view keeps in unsubscribeFromChat.
OpenChannel ==
    /\ viewPc = "subscribing"
    /\ calls[MountCall].pc = "resolved"
    /\ chatChannel' = [NoChannel EXCEPT !.state = "joining",
                                        !.chat_id = calls[MountCall].privateChat.id]
    /\ unsubscribeFromChat' = "unsubscribe"
    /\ viewPc' = "live"
    /\ SetCall(MountCall, [calls[MountCall] EXCEPT !.pc = "done"])
    /\ UNCHANGED <<authUser, mounted, messages, loadingMessages, fetched>>
    /\ UNCHANGED <<privateChatCache, private_chats, private_chat_messages>>
    /\ UNCHANGED <<keyVars, subVars, pathVars, pageVars>>

\* catch (error) of onMounted: the fetch or the subscribe threw;
\* loadingMessages.value = false and the error is logged.
OnLoadFailed ==
    /\ viewPc \in {"fetching", "subscribing"}
    /\ calls[MountCall].pc = "failed"
    /\ loadingMessages' = FALSE
    /\ viewPc' = IF viewPc = "fetching" THEN "fetchFailed" ELSE "subscribeFailed"
    /\ UNCHANGED <<authUser, mounted, messages, unsubscribeFromChat, chatChannel, fetched>>
    /\ UNCHANGED <<chatVars, keyVars, subVars, pathVars, pageVars>>

\* The realtime server takes the subscription: inserts from now on are
\* notified.
ChannelJoined ==
    /\ chatChannel.state = "joining"
    /\ chatChannel' = [chatChannel EXCEPT !.state = "joined",
                                          !.joinedAt = Cardinality(private_chat_messages)]
    /\ UNCHANGED <<authUser, viewPc, mounted, messages, loadingMessages,
                   unsubscribeFromChat, fetched>>
    /\ UNCHANGED <<chatVars, keyVars, subVars, pathVars, pageVars>>

\* Rows of any conversation inserted since the channel was joined.
NotifiableAnyChat(ch) ==
    {m \in private_chat_messages : m.id > ch.joinedAt /\ m.id \notin ch.delivered}

\* The inserts the server has still to notify on channel ch: event INSERT,
\* filter chat_id=eq.<id>.
Notifiable(ch) ==
    {m \in private_chat_messages :
        m.chat_id = ch.chat_id /\ m.id > ch.joinedAt /\ m.id \notin ch.delivered}

\* The list left as it was.
PushMessageDropped(list, newMessage) == list

\* messages.value.push(newMessage)
PushMessage(list, newMessage) == Append(list, newMessage)

\* A notification arrives: payload => callback(payload.new), and the view's
\* callback pushes the message.
NotifyInsert ==
    /\ chatChannel.state = "joined"
    /\ \E m \in Notifiable(chatChannel) :
         /\ messages' = PushMessage(messages, m)
         /\ chatChannel' = [chatChannel EXCEPT !.delivered = @ \cup {m.id}]
    /\ UNCHANGED <<authUser, viewPc, mounted, loadingMessages, unsubscribeFromChat, fetched>>
    /\ UNCHANGED <<chatVars, keyVars, subVars, pathVars, pageVars>>

\* The ids passed the other way round.
SubmitArgsSwapped == <<OtherId, authUser>>

\* sendNewPrivateChatMessage(userRef.value.id, otherId, ...)
SubmitArgs == <<authUser, OtherId>>

\* handleSubmit with a content that is not blank (a blank one returns at
\* once): sendNewPrivateChatMessage is called.
HandleSubmit(c) ==
    /\ mounted /\ viewPc # "setup"
    /\ c # MountCall /\ calls[c].pc = "idle"
    /\ \A x \in Calls : (x < c /\ x # MountCall) => calls[x].pc # "idle"
    /\ \E txt \in Contents :
         SetCall(c, CacheLookup(EnterCall("s1", SubmitArgs, txt, "send"), "send"))
    /\ UNCHANGED viewVars
    /\ UNCHANGED <<privateChatCache, private_chats, private_chat_messages>>
    /\ UNCHANGED <<keyVars, subVars, pathVars, pageVars>>

\* The other participant submits a message from their own page (another
\* session, where they are the authenticated user and the route names the
\* user of this page).
OtherUserSubmit(c) ==
    /\ c # MountCall /\ calls[c].pc = "idle"
    /\ \A x \in Calls : (x < c /\ x # MountCall) => calls[x].pc # "idle"
    /\ \E txt \in Contents :
         SetCall(c, CacheLookup(EnterCall("s2", <<OtherId, ViewUser>>, txt, "send"), "send"))
    /\ UNCHANGED viewVars
    /\ UNCHANGED <<privateChatCache, private_chats, private_chat_messages>>
    /\ UNCHANGED <<keyVars, subVars, pathVars, pageVars>>

\* onUnmounted: unsubscribeFromChat() is called, which is the placeholder
\* until subscribeToNewPrivateChatMessages has returned, and afterwards
\* chatChannel.unsubscribe(), which ends the notifications.
OnUnmounted ==
    /\ mounted /\ viewPc # "setup"
    /\ mounted' = FALSE
    /\ chatChannel' = IF unsubscribeFromChat = "unsubscribe"
                      THEN [chatChannel EXCEPT !.state = "closed"]
                      ELSE chatChannel
    /\ UNCHANGED <<authUser, viewPc, messages, loadingMessages, unsubscribeFromChat, fetched>>
    /\ UNCHANGED <<chatVars, keyVars, subVars, pathVars, pageVars>>

\* What the template shows: the loader while loadingMessages, otherwise the
\* list of messages, and the text "Todavia no hay mensajes con este usuario"
\* when the list is empty.
Rendered(list, loading) ==
    [loader |-> loading,
     list |-> IF loading THEN <<>> ELSE list,
     emptyText |-> (Len(list) = 0 /\ ~ loading)]

ViewInit ==
    /\ authUser = JsNull
    /\ viewPc = "setup"
    /\ mounted = TRUE
    /\ messages = <<>>
    /\ loadingMessages = FALSE
    /\ unsubscribeFromChat = "noop"
    /\ chatChannel = NoChannel
    /\ fetched = NotFetched

ViewNext ==
    \/ AuthStateChange
    \/ OnMounted
    \/ OnFetched
    \/ SubscribeAfterTick
    \/ OpenChannel
    \/ OnLoadFailed
    \/ ChannelJoined
    \/ NotifyInsert
    \/ OnUnmounted
    \/ \E c \in Calls :
         \/ HandleSubmit(c)
         \/ OtherUserSubmit(c)
         \/ FetchPrivateChatReply(c)
         \/ StoreInsertChat(c)
         \/ CreatePrivateChatReply(c)
         \/ SendMessageReply(c)
         \/ FetchMessagesFailed(c)

\* ------------------------------------------------------------------------
\* The payload handlers of the three subscriptions and a consumer callback
\* that can throw
\* ------------------------------------------------------------------------

\* Notifications per behaviour, over the three subscriptions.
MaxNotifications == 2

\* subscribeToPostRealtime, subscribeToCommentsRealtime and
\* subscribeToNewPrivateChatMessages.
Kinds == {"post", "comment", "message"}

\* state: off before the call, refused when the function returned its empty
\* unsubscribe at once, on while subscribed, broken when the realtime client
\* gave the channel up, closed after unsubscribe. invoked counts the calls of
\* the consumer callback, logged the exceptions the handler caught and wrote
\* to the console, escaped those that left the handler.
NoSub == [state |-> "off", invoked |-> 0, logged |-> 0, escaped |-> 0]

SubInit == subs = [k \in Kinds |-> NoSub]

\* The handlers of the post and comment subscriptions call the callback
\* inside try/catch; payload => { callback(payload.new); } of the message
\* subscription does not.
HandlerCatches(k) == k \in {"post", "comment"}

\* subscribeTo...(id, callback): the post and comment functions return an
\* empty unsubscribe when the id is missing or callback is not a function;
\* otherwise the channel is created and subscribed.
SubSubscribe(k) ==
    /\ subs[k].state = "off"
    /\ \E argsOk \in (IF k = "message" THEN {TRUE} ELSE BOOLEAN) :
         subs' = [subs EXCEPT ![k].state = IF argsOk THEN "on" ELSE "refused"]
    /\ UNCHANGED <<chatVars, keyVars, viewVars, pathVars, pageVars>>

Notified == subs["post"].invoked + subs["comment"].invoked + subs["message"].invoked

\* A notification arrives and the handler calls the consumer callback, which
\* returns or throws. A caught exception is logged. One that leaves the
\* handler lands in the realtime client, which is not this repository's:
\* the channel may go on or not.
SubNotify(k) ==
    /\ subs[k].state = "on"
    /\ Notified < MaxNotifications
    /\ \E throws \in BOOLEAN :
         IF ~ throws
         THEN subs' = [subs EXCEPT ![k].invoked = @ + 1]
         ELSE IF HandlerCatches(k)
         THEN subs' = [subs EXCEPT ![k].invoked = @ + 1, ![k].logged = @ + 1]
         ELSE \E after \in {"on", "broken"} :
                subs' = [subs EXCEPT ![k].invoked = @ + 1, ![k].escaped = @ + 1,
                                     ![k].state = after]
    /\ UNCHANGED <<chatVars, keyVars, viewVars, pathVars, pageVars>>

\* The function returned by subscribeTo... is called: channel.unsubscribe().
SubUnsubscribe(k) ==
    /\ subs[k].state \in {"on", "broken"}
    /\ subs' = [subs EXCEPT ![k].state = "closed"]
    /\ UNCHANGED <<chatVars, keyVars, viewVars, pathVars, pageVars>>

SubNext == \E k \in Kinds : SubSubscribe(k) \/ SubNotify(k) \/ SubUnsubscribe(k)

\* ------------------------------------------------------------------------
\* normalizePath of services/storage.js
\* ------------------------------------------------------------------------

\* Longest path drawn.
MaxPathLen == 4

\* Code unit of '/'.
Slash == 47

\* 'b' is 98.
PathAlphabet == {Slash, 98}

PathValues == {Str(s) : s \in StringsUpTo(PathAlphabet, MaxPathLen)} \cup {JsNull, JsUndefined}

BucketValues == {Str(s) : s \in StringsUpTo(PathAlphabet, MaxLen)} \cup {JsNull, JsUndefined}

\* (path = '', bucket = ''): a parameter left undefined takes its default.
WithDefault(v) == IF v.t = "undefined" THEN Str(<<>>) ELSE v

\* !v for a string or null
IsFalsy(v) == v.t # "str" \/ v.s = <<>>

\* s.replace(/\/+$/, '')
RECURSIVE StripTrailingSlashes(_)
StripTrailingSlashes(s) ==
    IF s # <<>> /\ s[Len(s)] = Slash
    THEN StripTrailingSlashes(SubSeq(s, 1, Len(s) - 1))
    ELSE s

\* s.startsWith(prefix)
StartsWith(s, prefix) == Len(prefix) <= Len(s) /\ SubSeq(s, 1, Len(prefix)) = prefix

normalizePath(path, bucket) ==
    LET p == WithDefault(path)
        b == WithDefault(bucket)
    IN  IF IsFalsy(p) \/ IsFalsy(b) THEN p
        ELSE LET prefix == StripTrailingSlashes(b.s) \o <<Slash>>
             IN  IF StartsWith(p.s, prefix)
                 THEN Str(SubSeq(p.s, Len(prefix) + 1, Len(p.s)))
                 ELSE p

PathInit ==
    /\ npArgs \in [path : PathValues, bucket : BucketValues]
    /\ npOut = JsUndefined
    /\ npAgain = JsUndefined
    /\ npPc = "start"

\* const safePath = normalizePath(path, bucket)
Normalize ==
    /\ npPc = "start"
    /\ npOut' = normalizePath(npArgs.path, npArgs.bucket)
    /\ npPc' = "once"
    /\ UNCHANGED <<npArgs, npAgain>>
    /\ UNCHANGED <<chatVars, keyVars, viewVars, subVars, pageVars>>

\* normalizePath applied to its own result, with the same bucket.
NormalizeAgain ==
    /\ npPc = "once"
    /\ npAgain' = normalizePath(npOut, npArgs.bucket)
    /\ npPc' = "twice"
    /\ UNCHANGED <<npArgs, npOut>>
    /\ UNCHANGED <<chatVars, keyVars, viewVars, subVars, pageVars>>

PathNext == Normalize \/ NormalizeAgain

\* ------------------------------------------------------------------------
\* The comment list of the post detail view and its realtime handler
\* ------------------------------------------------------------------------

\* Entries the list holds at most.
MaxComments == 3

CommentIds == 1..2

\* A row of the comments table, as far as the handler looks at it.
CommentRows == [id : CommentIds, content : {"a", "b"}]

\* payload.new of a DELETE and payload.old of an INSERT: an object without
\* the row's columns.
NoRow == [id |-> 0, content |-> ""]

NoEvt == [type |-> "", newRow |-> NoRow, oldRow |-> NoRow]

\* evt = { type, newRow: payload.new ?? null, oldRow: payload.old ?? null }
\* for the three events of the channel (event: '*').
CommentEvents ==
    {[type |-> "INSERT", newRow |-> r, oldRow |-> NoRow] : r \in CommentRows}
    \cup {[type |-> "UPDATE", newRow |-> r, oldRow |-> [NoRow EXCEPT !.id = r.id]]
            : r \in CommentRows}
    \cup {[type |-> "DELETE", newRow |-> NoRow, oldRow |-> [NoRow EXCEPT !.id = i]]
            : i \in CommentIds}

\* The row put at the end.
UnshiftAtEnd(list, row) == Append(list, row)

\* comments.value.unshift(evt.newRow)
Unshift(list, row) == <<row>> \o list

\* comments.value.findIndex(c => c.id === id): the first index, 0 for -1.
FindIndex(list, id) ==
    IF \E i \in 1..Len(list) : list[i].id = id
    THEN CHOOSE i \in 1..Len(list) :
             list[i].id = id /\ \A j \in 1..(i - 1) : list[j].id # id
    ELSE 0

\* comments.value.filter(c => c.id !== id)
FilterOut(list, id) == SelectSeq(list, LAMBDA c : c.id # id)

\* The callback PostDetalle passes to subscribeToCommentsRealtime.
HandleCommentEvent(list, evt) ==
    IF evt.type = "INSERT" THEN Unshift(list, evt.newRow)
    ELSE IF evt.type = "UPDATE"
         THEN LET idx == FindIndex(list, evt.newRow.id)
              IN  IF idx # 0 THEN [list EXCEPT ![idx] = evt.newRow] ELSE list
    ELSE IF evt.type = "DELETE" THEN FilterOut(list, evt.oldRow.id)
    ELSE list

\* Lists of rows with ids all different, as fetchCommentsByPostId returns.
LoadedComments ==
    {q \in UNION {[1..n -> CommentRows] : n \in 0..Cardinality(CommentIds)} :
        \A i, j \in 1..Len(q) : q[i].id = q[j].id => i = j}

\* After loadComments: comments.value is what the select returned, or []
\* when it threw.
CommentInit ==
    /\ comments \in LoadedComments
    /\ commentEvt = NoEvt

\* The channel's handler is called with an event and calls the callback.
CommentEvent ==
    /\ \E evt \in CommentEvents :
         /\ evt.type = "INSERT" => Len(comments) < MaxComments
         /\ commentEvt' = evt
         /\ comments' = HandleCommentEvent(comments, evt)
    /\ UNCHANGED <<coreVars, previewVars, serviceVars, guardVars, detailVars, profileVars>>

CommentNext == CommentEvent

\* ------------------------------------------------------------------------
\* Image previews and their object URLs
\* ------------------------------------------------------------------------

\* Object URLs created per behaviour.
MaxUrls == 3

PreviewPages == {"CrearPost", "PostDetalle", "MiPerfilEditar"}

\* imagePreview1 and imagePreview2; MiPerfilEditar has imageData.preview only.
SlotsOf(page) == IF page = "MiPerfilEditar" THEN {1} ELSE {1, 2}

NoPreviews == [slot \in {1, 2} |-> 0]

\* URL.revokeObjectURL(url) when url is truthy.
Revoke(urls, url) == [urls EXCEPT !.live = @ \ {url}]

\* URL.createObjectURL(file): a URL not handed out before.
CreateUrl(urls) == [urls EXCEPT !.created = @ + 1, !.live = @ \cup {urls.created + 1}]

RECURSIVE RevokeAll(_, _)
RevokeAll(urls, set) ==
    IF set = {} THEN urls
    ELSE LET u == CHOOSE x \in set : TRUE
         IN  RevokeAll(Revoke(urls, u), set \ {u})

\* The previews a page holds.
HeldUrls(previews) == {previews[slot] : slot \in {1, 2}} \ {0}

PreviewInit ==
    /\ pvPage \in PreviewPages
    /\ imagePreview = NoPreviews
    /\ objectUrls = [created |-> 0, live |-> {}]
    /\ pvSubmitting = FALSE
    /\ pvMounted = TRUE

\* onFileChange(e, index) / handleImageChange(e) with a file chosen: the
\* slot's previous preview is revoked and a new object URL made.
\* handleImageChange returns at once while loading.
FileChosen(slot) ==
    /\ pvMounted /\ slot \in SlotsOf(pvPage)
    /\ ~ (pvPage = "MiPerfilEditar" /\ pvSubmitting)
    /\ objectUrls.created < MaxUrls
    /\ objectUrls' = CreateUrl(Revoke(objectUrls, imagePreview[slot]))
    /\ imagePreview' = [imagePreview EXCEPT ![slot] = objectUrls.created + 1]
    /\ UNCHANGED <<pvPage, pvSubmitting, pvMounted>>
    /\ UNCHANGED <<coreVars, commentVars, serviceVars, guardVars, detailVars, profileVars>>

\* The file dialog is closed without a file: onFileChange returns;
\* handleImageChange has revoked and cleared the preview before it returns.
FileCleared(slot) ==
    /\ pvMounted /\ slot \in SlotsOf(pvPage)
    /\ imagePreview[slot] # 0
    /\ pvPage = "MiPerfilEditar" /\ ~ pvSubmitting
    /\ objectUrls' = Revoke(objectUrls, imagePreview[slot])
    /\ imagePreview' = [imagePreview EXCEPT ![slot] = 0]
    /\ UNCHANGED <<pvPage, pvSubmitting, pvMounted>>
    /\ UNCHANGED <<coreVars, commentVars, serviceVars, guardVars, detailVars, profileVars>>

\* startEdit and cancelEdit of PostDetalle: both previews are revoked and
\* set to null.
StartOrCancelEdit ==
    /\ pvMounted /\ pvPage = "PostDetalle"
    /\ objectUrls' = RevokeAll(objectUrls, HeldUrls(imagePreview))
    /\ imagePreview' = NoPreviews
    /\ UNCHANGED <<pvPage, pvSubmitting, pvMounted>>
    /\ UNCHANGED <<coreVars, commentVars, serviceVars, guardVars, detailVars, profileVars>>

\* handleSubmit / saveEdit up to its first await.
PreviewSubmit ==
    /\ pvMounted /\ ~ pvSubmitting
    /\ pvSubmitting' = TRUE
    /\ UNCHANGED <<pvPage, imagePreview, objectUrls, pvMounted>>
    /\ UNCHANGED <<coreVars, commentVars, serviceVars, guardVars, detailVars, profileVars>>

\* The requests of the submit are answered. After a success CrearPost
\* resets the form (imagePreview1.value = imagePreview2.value = null);
\* the other pages leave the previews; a failure leaves them on every page.
PreviewSubmitDone ==
    /\ pvSubmitting
    /\ pvSubmitting' = FALSE
    /\ \E ok \in BOOLEAN :
         imagePreview' = IF ok /\ pvPage = "CrearPost" THEN NoPreviews ELSE imagePreview
    /\ UNCHANGED <<pvPage, objectUrls, pvMounted>>
    /\ UNCHANGED <<coreVars, commentVars, serviceVars, guardVars, detailVars, profileVars>>

\* onUnmounted: the previews the refs hold are revoked.
PreviewUnmounted ==
    /\ pvMounted
    /\ pvMounted' = FALSE
    /\ objectUrls' = RevokeAll(objectUrls, HeldUrls(imagePreview))
    /\ imagePreview' = IF pvPage = "MiPerfilEditar" THEN NoPreviews ELSE imagePreview
    /\ UNCHANGED <<pvPage, pvSubmitting>>
    /\ UNCHANGED <<coreVars, commentVars, serviceVars, guardVars, detailVars, profileVars>>

PreviewNext ==
    \/ \E slot \in {1, 2} : FileChosen(slot) \/ FileCleared(slot)
    \/ StartOrCancelEdit
    \/ PreviewSubmit
    \/ PreviewSubmitDone
    \/ PreviewUnmounted

\* ------------------------------------------------------------------------
\* The services that check their arguments before the request
\* ------------------------------------------------------------------------

\* Service calls per behaviour.
MaxServiceCalls == 2

\* Values an argument or a field of the payload can have: left out, null,
\* the empty string, a string.
ArgValues == {JsUndefined, JsNull, Str(<<>>), Str(<<97>>)}

\* createPost(payload) reads payload.sender_id, deletePost(id) id,
\* insertComment(payload) payload.post_id and payload.content,
\* uploadFile(path, file) path and file. payload says whether an object was
\* passed; a and b are the values read.
ServiceCalls ==
    {[fn |-> "createPost", payload |-> o, a |-> x, b |-> JsUndefined]
        : o \in BOOLEAN, x \in ArgValues}
    \cup {[fn |-> "deletePost", payload |-> FALSE, a |-> x, b |-> JsUndefined]
            : x \in ArgValues}
    \cup {[fn |-> "insertComment", payload |-> o, a |-> x, b |-> y]
            : o \in BOOLEAN, x \in ArgValues, y \in ArgValues}
    \cup {[fn |-> "uploadFile", payload |-> FALSE, a |-> x, b |-> y]
            : x \in ArgValues, y \in {JsUndefined, JsNull, Str(<<97>>)}}

\* A payload that is not there has no fields.
WellFormed(call) ==
    (call.fn \in {"createPost", "insertComment"} /\ ~ call.payload)
    => (call.a = JsUndefined /\ call.b = JsUndefined)

\* Every call passes the check.
ArgumentsAcceptedAlways(call) == TRUE

\* The condition of the function's opening if does not throw.
ArgumentsAccepted(call) ==
    IF call.fn = "createPost" THEN call.payload /\ ~ IsFalsy(call.a)
    ELSE IF call.fn = "deletePost" THEN ~ IsFalsy(call.a)
    ELSE IF call.fn = "insertComment"
         THEN call.payload /\ ~ IsFalsy(call.a) /\ ~ IsFalsy(call.b)
    ELSE ~ IsFalsy(call.a) /\ ~ IsFalsy(call.b)

NoServiceCall ==
    [fn |-> "", payload |-> FALSE, a |-> JsUndefined, b |-> JsUndefined, pc |-> "idle"]

EmptyBackend == [posts |-> 0, comments |-> 0, files |-> 0]

ServiceInit ==
    /\ svCall = NoServiceCall
    /\ svCalls = 0
    /\ svRequests = 0
    /\ backend = EmptyBackend

\* A service function is called and runs to its first await: it throws its
\* own Error, or sends its request to the backend.
ServiceCalled ==
    /\ svCall.pc \in {"idle", "threw", "returned", "failed"}
    /\ svCalls < MaxServiceCalls
    /\ svCalls' = svCalls + 1
    /\ \E call \in {x \in ServiceCalls : WellFormed(x)} :
         IF ArgumentsAccepted(call)
         THEN /\ svCall' = [fn |-> call.fn, payload |-> call.payload,
                            a |-> call.a, b |-> call.b, pc |-> "sent"]
              /\ svRequests' = svRequests + 1
         ELSE /\ svCall' = [fn |-> call.fn, payload |-> call.payload,
                            a |-> call.a, b |-> call.b, pc |-> "threw"]
              /\ svRequests' = svRequests
    /\ UNCHANGED backend
    /\ UNCHANGED <<coreVars, commentVars, previewVars, guardVars, detailVars, profileVars>>

\* What the backend holds after carrying the request out.
Applied(call, rows) ==
    IF call.fn = "createPost" THEN [rows EXCEPT !.posts = @ + 1]
    ELSE IF call.fn = "deletePost" THEN [rows EXCEPT !.posts = IF @ > 0 THEN @ - 1 ELSE 0]
    ELSE IF call.fn = "insertComment" THEN [rows EXCEPT !.comments = @ + 1]
    ELSE [rows EXCEPT !.files = @ + 1]

\* The backend answers: the request was carried out and the function
\* returns, or it answers with an error, which the function throws.
ServiceReplied ==
    /\ svCall.pc = "sent"
    /\ \/ /\ backend' = Applied(svCall, backend)
          /\ svCall' = [svCall EXCEPT !.pc = "returned"]
       \/ /\ backend' = backend
          /\ svCall' = [svCall EXCEPT !.pc = "failed"]
    /\ UNCHANGED <<svCalls, svRequests>>
    /\ UNCHANGED <<coreVars, commentVars, previewVars, guardVars, detailVars, profileVars>>

ServiceNext == ServiceCalled \/ ServiceReplied

\* ------------------------------------------------------------------------
\* The navigation guard of the router
\* ------------------------------------------------------------------------

\* Nesting of redirect queries in the location a navigation starts with.
MaxRedirectDepth == 1

\* The routes table: each path's meta.
Routes ==
    [p \in {"/", "/publicaciones", "/post/:id", "/crear-post", "/login", "/register",
            "/mi-perfil", "/mi-perfil/editar", "/usuario/:id", "/usuario/:id/chat"} |->
        IF p \in {"/crear-post", "/mi-perfil", "/mi-perfil/editar", "/usuario/:id/chat"}
        THEN "requiresAuth"
        ELSE IF p \in {"/login", "/register"} THEN "guestOnly" ELSE ""]

LoginPath == "/login"

\* A location is its path followed by the location its redirect query
\* names, if any: <<p, q>> is p?redirect=q. It is its own fullPath.
RECURSIVE LocationsOfDepth(_)
LocationsOfDepth(n) ==
    IF n = 0 THEN {<<p>> : p \in DOMAIN Routes}
    ELSE {<<p>> \o l : p \in DOMAIN Routes, l \in LocationsOfDepth(n - 1)}

StartLocations == UNION {LocationsOfDepth(n) : n \in 0..MaxRedirectDepth}

\* to.matched.some(r => r.meta?.requiresAuth) and the same for guestOnly.
RequiresAuth(to) == Routes[Head(to)] = "requiresAuth"

GuestOnly(to) == Routes[Head(to)] = "guestOnly"

\* The Login route without a query.
ToLoginWithoutRedirect(to) == <<LoginPath>>

\* { name: 'Login', query: { redirect: to.fullPath } }
ToLogin(to) == <<LoginPath>> \o to

\* The guest-only location itself.
RedirectTargetSelf(to) == to

\* to.query?.redirect || '/'
RedirectTarget(to) == IF Len(to) > 1 THEN Tail(to) ELSE <<"/">>

NoLog == [from |-> <<>>, redirects |-> 0, lookups |-> 0, user |-> ""]

GuardInit ==
    /\ session \in {"user", "none", "error"}
    /\ navTo \in StartLocations
    /\ navPc = "guard"
    /\ navLog = [NoLog EXCEPT !.from = navTo]

\* beforeEach up to its await: a route marked neither way is allowed at
\* once; otherwise supabase.auth.getUser() is called.
GuardEntered ==
    /\ navPc = "guard"
    /\ IF ~ RequiresAuth(navTo) /\ ~ GuestOnly(navTo)
       THEN navPc' = "allowed" /\ navLog' = navLog
       ELSE navPc' = "lookup" /\ navLog' = [navLog EXCEPT !.lookups = @ + 1]
    /\ UNCHANGED <<session, navTo>>
    /\ UNCHANGED <<coreVars, commentVars, previewVars, serviceVars, detailVars, profileVars>>

\* The guard's return value once getUser() has answered or thrown: true,
\* or the location to go to instead.
GuardResult(to, answer) ==
    IF RequiresAuth(to) /\ answer # "user" THEN [allow |-> FALSE, to |-> ToLogin(to)]
    ELSE IF GuestOnly(to) /\ answer = "user" THEN [allow |-> FALSE, to |-> RedirectTarget(to)]
    ELSE [allow |-> TRUE, to |-> to]

\* getUser() answers; the guard returns, and on a redirect the router
\* starts the navigation to the new location, guard included.
GuardReturned ==
    /\ navPc = "lookup"
    /\ LET result == GuardResult(navTo, session)
       IN  /\ navTo' = result.to
           /\ navPc' = IF result.allow THEN "allowed" ELSE "guard"
           /\ navLog' = [navLog EXCEPT !.user = session,
                                       !.redirects = IF result.allow THEN @ ELSE @ + 1]
    /\ UNCHANGED session
    /\ UNCHANGED <<coreVars, commentVars, previewVars, serviceVars, detailVars, profileVars>>

GuardNext == GuardEntered \/ GuardReturned

\* ------------------------------------------------------------------------
\* Editing and deleting in the post detail view
\* ------------------------------------------------------------------------

\* post.value = null: no post loaded.
NoPost == [loaded |-> FALSE, sender_id |-> JsNull]

\* What loadPost can leave in post: null, or the row of the posts table
\* with the sender_id the store holds for it (a column that can be null).
PostValues == {NoPost} \cup {[loaded |-> TRUE, sender_id |-> x] : x \in {JsNull, U1, U2}}

NotSaving == [on |-> FALSE, user |-> JsNull, sender |-> JsNull]

\* isOwner: !!(currentUser.value && post.value &&
\* currentUser.value.id === post.value.sender_id); currentUser.value is the
\* object of useAuthUserState, with id null until a user is reported.
IsOwner(user, p) == p.loaded /\ user = p.sender_id

\* The ids isOwner compared, with what they let through.
Logged(op) == [op |-> op, user |-> currentUser, sender |-> post.sender_id]

DetailInit ==
    /\ currentUser = JsNull
    /\ post = NoPost
    /\ editing = FALSE
    /\ saving = NotSaving
    /\ pdLog = {}

\* subscribeToAuthStateChanges(newState => user.value = newState): a user
\* is reported.
DetailAuthStateChange ==
    /\ currentUser = JsNull
    /\ currentUser' \in {U1, U2}
    /\ UNCHANGED <<post, editing, saving, pdLog>>
    /\ UNCHANGED <<coreVars, commentVars, previewVars, serviceVars, guardVars, profileVars>>

\* loadPost has run (on mount, on a realtime UPDATE, after a save): post
\* is the row fetched, or null.
PostLoaded ==
    /\ post' \in PostValues
    /\ UNCHANGED <<currentUser, editing, saving, pdLog>>
    /\ UNCHANGED <<coreVars, commentVars, previewVars, serviceVars, guardVars, profileVars>>

\* startEdit: returns unless isOwner; editing.value = true.
StartEdit ==
    /\ IsOwner(currentUser, post)
    /\ editing' = TRUE
    /\ pdLog' = pdLog \cup {Logged("startEdit")}
    /\ UNCHANGED <<currentUser, post, saving>>
    /\ UNCHANGED <<coreVars, commentVars, previewVars, serviceVars, guardVars, profileVars>>

\* cancelEdit: editing.value = false.
CancelEdit ==
    /\ editing
    /\ editing' = FALSE
    /\ UNCHANGED <<currentUser, post, saving, pdLog>>
    /\ UNCHANGED <<coreVars, commentVars, previewVars, serviceVars, guardVars, profileVars>>

\* saveEdit up to its first await: returns unless isOwner;
\* saving.value = true and the images are uploaded or looked up.
SaveEdit ==
    /\ ~ saving.on
    /\ IsOwner(currentUser, post)
    /\ saving' = [on |-> TRUE, user |-> currentUser, sender |-> post.sender_id]
    /\ UNCHANGED <<currentUser, post, editing, pdLog>>
    /\ UNCHANGED <<coreVars, commentVars, previewVars, serviceVars, guardVars, profileVars>>

\* saveEdit goes on: an upload throws, or updatePost is issued and then
\* either throws or is followed by editing.value = false; finally
\* saving.value = false.
SaveEditDone ==
    /\ saving.on
    /\ saving' = NotSaving
    /\ \/ UNCHANGED <<editing, pdLog>>
       \/ /\ pdLog' = pdLog \cup {[op |-> "updatePost", user |-> saving.user,
                                   sender |-> saving.sender]}
          /\ editing' \in {editing, FALSE}
    /\ UNCHANGED <<currentUser, post>>
    /\ UNCHANGED <<coreVars, commentVars, previewVars, serviceVars, guardVars, profileVars>>

\* removePost: returns unless isOwner and the user confirms; deletePost
\* is issued.
RemovePost ==
    /\ IsOwner(currentUser, post)
    /\ pdLog' = pdLog \cup {Logged("deletePost")}
    /\ UNCHANGED <<currentUser, post, editing, saving>>
    /\ UNCHANGED <<coreVars, commentVars, previewVars, serviceVars, guardVars, profileVars>>

DetailNext ==
    \/ DetailAuthStateChange
    \/ PostLoaded
    \/ StartEdit
    \/ CancelEdit
    \/ SaveEdit
    \/ SaveEditDone
    \/ RemovePost

\* ------------------------------------------------------------------------
\* The posts of the profile page
\* ------------------------------------------------------------------------

\* loadUserProfile calls per behaviour.
MaxLoads == 2

Loads == 1..MaxLoads

\* user.value without an authenticated user: the object with id: null and
\* email: null.
NoUser == [id |-> JsNull, email |-> ""]

\* The users that can be logged in, with their emails.
KnownUsers == {[id |-> U1, email |-> "u1@"], [id |-> U2, email |-> "u2@"]}

\* What fetchPosts returns: the posts of every user.
AllPosts == {[id |-> 1, user_email |-> "u1@"], [id |-> 2, user_email |-> "u2@"]}

\* all.filter(p => p.user_email === email)
PostsOf(email) == {p \in AllPosts : p.user_email = email}

NoLoad == [pc |-> "idle", userId |-> JsNull, email |-> ""]

\* After setup: the watch has run at once for the initial user, which has
\* no id, and set posts.value = [].
ProfileInit ==
    /\ perfilUser = NoUser
    /\ posts = {}
    /\ perfilLoading = FALSE
    /\ loads = [l \in Loads |-> NoLoad]

\* The auth state changes and the watch runs: without an id
\* posts.value = []; with one loadUserProfile(u.id) is called and runs to
\* its await of fetchUserProfileById.
UserChanged ==
    \E u \in KnownUsers \cup {NoUser} :
        /\ u # perfilUser
        /\ perfilUser' = u
        /\ IF u.id = JsNull
           THEN posts' = {} /\ UNCHANGED <<perfilLoading, loads>>
           ELSE \E l \in Loads :
                  /\ loads[l].pc = "idle"
                  /\ \A x \in Loads : x < l => loads[x].pc # "idle"
                  /\ loads' = [loads EXCEPT ![l] = [pc |-> "profile", userId |-> u.id,
                                                    email |-> ""]]
                  /\ perfilLoading' = TRUE
                  /\ UNCHANGED posts
        /\ UNCHANGED <<coreVars, commentVars, previewVars, serviceVars, guardVars, detailVars>>

\* fetchUserProfileById answers. It throws: catch and finally. Otherwise
\* loadUserPosts(profile?.email ?? user.value?.email) is called: without an
\* email posts.value = [] and the load ends; with one fetchPosts is awaited.
ProfileFetched(l) ==
    /\ loads[l].pc = "profile"
    /\ \/ /\ loads' = [loads EXCEPT ![l].pc = "done"]
          /\ perfilLoading' = FALSE
          /\ UNCHANGED posts
       \/ \E email \in {u.email : u \in {x \in KnownUsers : x.id = loads[l].userId}}
                       \cup {perfilUser.email} :
            IF email = ""
            THEN /\ posts' = {}
                 /\ loads' = [loads EXCEPT ![l].pc = "done"]
                 /\ perfilLoading' = FALSE
            ELSE /\ loads' = [loads EXCEPT ![l].pc = "posts", ![l].email = email]
                 /\ UNCHANGED <<posts, perfilLoading>>
    /\ UNCHANGED perfilUser
    /\ UNCHANGED <<coreVars, commentVars, previewVars, serviceVars, guardVars, detailVars>>

\* fetchPosts answers: posts.value is the filtered list, or [] when it
\* threw; loadUserProfile's finally sets loading.value = false.
PostsFetched(l) ==
    /\ loads[l].pc = "posts"
    /\ posts' \in {PostsOf(loads[l].email), {}}
    /\ loads' = [loads EXCEPT ![l].pc = "done"]
    /\ perfilLoading' = FALSE
    /\ UNCHANGED perfilUser
    /\ UNCHANGED <<coreVars, commentVars, previewVars, serviceVars, guardVars, detailVars>>

ProfileNext == UserChanged \/ \E l \in Loads : ProfileFetched(l) \/ PostsFetched(l)

\* ------------------------------------------------------------------------
\* Specifications
\* ------------------------------------------------------------------------

KeyIdle ==
    /\ keyArgs = [a |-> JsNull, b |-> JsNull, c |-> JsNull, d |-> JsNull]
    /\ keyCache = EmptyCache
    /\ keyGot = NullChat
    /\ keyPc = "off"

ViewIdle ==
    /\ authUser = JsNull
    /\ viewPc = "off"
    /\ mounted = FALSE
    /\ messages = <<>>
    /\ loadingMessages = FALSE
    /\ unsubscribeFromChat = "noop"
    /\ chatChannel = NoChannel
    /\ fetched = NotFetched

SubIdle == subs = [k \in {} |-> 0]

PathIdle ==
    /\ npArgs = [path |-> JsUndefined, bucket |-> JsUndefined]
    /\ npOut = JsUndefined
    /\ npAgain = JsUndefined
    /\ npPc = "off"

CommentIdle ==
    /\ comments = <<>>
    /\ commentEvt = NoEvt

PreviewIdle ==
    /\ pvPage = ""
    /\ imagePreview = NoPreviews
    /\ objectUrls = [created |-> 0, live |-> {}]
    /\ pvSubmitting = FALSE
    /\ pvMounted = FALSE

ServiceIdle ==
    /\ svCall = [NoServiceCall EXCEPT !.pc = "off"]
    /\ svCalls = 0
    /\ svRequests = 0
    /\ backend = EmptyBackend

GuardIdle ==
    /\ session = "none"
    /\ navTo = <<>>
    /\ navPc = "off"
    /\ navLog = NoLog

DetailIdle ==
    /\ currentUser = JsNull
    /\ post = NoPost
    /\ editing = FALSE
    /\ saving = NotSaving
    /\ pdLog = {}

ProfileIdle ==
    /\ perfilUser = NoUser
    /\ posts = {}
    /\ perfilLoading = FALSE
    /\ loads = [l \in {} |-> NoLoad]

PageIdle ==
    CommentIdle /\ PreviewIdle /\ ServiceIdle /\ GuardIdle /\ DetailIdle /\ ProfileIdle

CoreIdle == ChatInit /\ KeyIdle /\ ViewIdle /\ SubIdle /\ PathIdle

Init == ChatInit /\ KeyIdle /\ ViewIdle /\ SubIdle /\ PathIdle /\ PageIdle

Next == ChatNext

Spec == Init /\ [][Next]_vars

SpecKeyInit == KeyInit /\ ChatInit /\ ViewIdle /\ SubIdle /\ PathIdle /\ PageIdle

SpecKeyNext == KeyNext

SpecKey == SpecKeyInit /\ [][SpecKeyNext]_vars

SpecViewInit == ViewInit /\ ChatInit /\ KeyIdle /\ SubIdle /\ PathIdle /\ PageIdle

SpecViewNext == ViewNext

SpecView == SpecViewInit /\ [][SpecViewNext]_vars

\* The realtime server notifies every insert a joined channel is due, and
\* the page's event loop runs the handler.
SpecViewLive == SpecView /\ WF_vars(NotifyInsert)

SpecSubInit == SubInit /\ ChatInit /\ KeyIdle /\ ViewIdle /\ PathIdle /\ PageIdle

SpecSubNext == SubNext

SpecSub == SpecSubInit /\ [][SpecSubNext]_vars

SpecPathInit == PathInit /\ ChatInit /\ KeyIdle /\ ViewIdle /\ SubIdle /\ PageIdle

SpecPathNext == PathNext

SpecPath == SpecPathInit /\ [][SpecPathNext]_vars

SpecCommentsInit == CommentInit /\ CoreIdle /\ PreviewIdle /\ ServiceIdle /\ GuardIdle /\ DetailIdle /\ ProfileIdle

SpecCommentsNext == CommentNext

SpecComments == SpecCommentsInit /\ [][SpecCommentsNext]_vars

SpecPreviewInit == PreviewInit /\ CoreIdle /\ CommentIdle /\ ServiceIdle /\ GuardIdle /\ DetailIdle /\ ProfileIdle

SpecPreviewNext == PreviewNext

SpecPreview == SpecPreviewInit /\ [][SpecPreviewNext]_vars

SpecServiceInit == ServiceInit /\ CoreIdle /\ CommentIdle /\ PreviewIdle /\ GuardIdle /\ DetailIdle /\ ProfileIdle

SpecServiceNext == ServiceNext

SpecService == SpecServiceInit /\ [][SpecServiceNext]_vars

SpecGuardInit == GuardInit /\ CoreIdle /\ CommentIdle /\ PreviewIdle /\ ServiceIdle /\ DetailIdle /\ ProfileIdle

SpecGuardNext == GuardNext

SpecGuard == SpecGuardInit /\ [][SpecGuardNext]_vars

\* The router runs the guard of a navigation it has started, and
\* getUser() answers or throws.
SpecGuardLive == SpecGuard /\ WF_vars(GuardNext)

SpecDetailInit ==
    DetailInit /\ CoreIdle /\ CommentIdle /\ PreviewIdle /\ ServiceIdle /\ GuardIdle /\ ProfileIdle

SpecDetailNext == DetailNext

SpecDetail == SpecDetailInit /\ [][SpecDetailNext]_vars

SpecProfileInit ==
    ProfileInit /\ CoreIdle /\ CommentIdle /\ PreviewIdle /\ ServiceIdle /\ GuardIdle /\ DetailIdle

SpecProfileNext == ProfileNext

SpecProfile == SpecProfileInit /\ [][SpecProfileNext]_vars

\* ------------------------------------------------------------------------
\* Properties of the key computation (SpecKey)
\* ------------------------------------------------------------------------

IsStr(v) == v.t = "str"

HasNoSeparator(v) == IsStr(v) /\ \A i \in 1..Len(v.s) : v.s[i] # Underscore

\* C1: for string ids a and b the key of (a, b) is the key of (b, a), and a
\* value stored with addToPrivateChatCache(a, b, v) is what
\* getFromPrivateChatCache(b, a) returns.
C1_KeyCommutativity ==
    (/\ keyPc = "got"
     /\ IsStr(keyArgs.a) /\ IsStr(keyArgs.b)
     /\ keyArgs.c = keyArgs.b /\ keyArgs.d = keyArgs.a)
    => /\ cacheKey(keyArgs.a, keyArgs.b) = cacheKey(keyArgs.b, keyArgs.a)
       /\ keyGot = ProbeChat

C1_Witness ==
    /\ keyPc = "got"
    /\ IsStr(keyArgs.a) /\ IsStr(keyArgs.b)
    /\ StrLess(keyArgs.b.s, keyArgs.a.s)
    /\ keyArgs.c = keyArgs.b /\ keyArgs.d = keyArgs.a
    /\ keyGot = ProbeChat

\* C2: for ids that are strings without '_', two different unordered pairs
\* have different keys, so what was cached for {a, b} is not returned for
\* {c, d}.
C2_KeyUniqueness ==
    (/\ keyPc = "got"
     /\ \A v \in {keyArgs.a, keyArgs.b, keyArgs.c, keyArgs.d} : HasNoSeparator(v)
     /\ ~ (\/ (keyArgs.a = keyArgs.c /\ keyArgs.b = keyArgs.d)
           \/ (keyArgs.a = keyArgs.d /\ keyArgs.b = keyArgs.c)))
    => /\ cacheKey(keyArgs.a, keyArgs.b) # cacheKey(keyArgs.c, keyArgs.d)
       /\ keyGot = NullChat

C2_Witness ==
    /\ keyPc = "got"
    /\ \A v \in {keyArgs.a, keyArgs.b, keyArgs.c, keyArgs.d} : HasNoSeparator(v)
    /\ keyArgs.a # keyArgs.c /\ keyArgs.a # keyArgs.d
    /\ keyArgs.a.s \o keyArgs.b.s = keyArgs.c.s \o keyArgs.d.s
    /\ keyGot = NullChat

\* ------------------------------------------------------------------------
\* Properties of the resolver and its callers (Spec)
\* ------------------------------------------------------------------------

Started(c) == calls[c].pc # "idle"

\* fetchOrCreatePrivateChat has returned a conversation to call c.
HasResolved(c) == calls[c].privateChat # NullChat

\* c2 was called after c1 had returned or thrown.
After(c1, c2) == Started(c2) /\ c1 \in calls[c2].before

SamePair(c1, c2) == SortedIds(calls[c1]) = SortedIds(calls[c2])

SameOrder(c1, c2) ==
    /\ calls[c1].senderId = calls[c2].senderId
    /\ calls[c1].receiverId = calls[c2].receiverId

CrossOrder(c1, c2) ==
    /\ calls[c1].senderId = calls[c2].receiverId
    /\ calls[c1].receiverId = calls[c2].senderId
    /\ calls[c1].senderId # calls[c1].receiverId

ValidPair(c) == IsValidId(calls[c].senderId) /\ IsValidId(calls[c].receiverId)

\* No two resolutions of c's pair were ever in flight at once.
InSequence(c) == SortedIds(calls[c]) \notin overlapped

\* The insert of call c was done by the store.
InsertDone(c) ==
    /\ calls[c].inserts = 1
    /\ \/ calls[c].pc = "createReplied" /\ ~ calls[c].resp.error
       \/ HasResolved(c)

\* C3: a second fetchOrCreatePrivateChat(a, b), called in the same session
\* after the first one returned, is a cache hit: it sends no select and no
\* insert, and, the resolutions of the pair being in sequence, it returns
\* the conversation id the first call returned.
C3_IdempotentResolution ==
    \A c1 \in Calls, c2 \in Calls :
        (/\ After(c1, c2) /\ HasResolved(c1)
         /\ calls[c1].session = calls[c2].session
         /\ SameOrder(c1, c2))
        => /\ calls[c2].cacheHit
           /\ calls[c2].queries = 0 /\ calls[c2].inserts = 0
           /\ HasResolved(c2)
           /\ InSequence(c2) => calls[c2].privateChat.id = calls[c1].privateChat.id

C3_Witness ==
    \E c1 \in Calls, c2 \in Calls :
        /\ After(c1, c2) /\ HasResolved(c1)
        /\ calls[c1].session = calls[c2].session
        /\ SameOrder(c1, c2) /\ InSequence(c2)
        /\ calls[c1].inserts = 1
        /\ calls[c2].cacheHit /\ calls[c2].pc = "done"
        /\ calls[c2].privateChat.id = calls[c1].privateChat.id

\* C4: a resolution that finds the pair neither in the cache nor in the
\* store sends exactly one insert; the store adds exactly one row for it,
\* and the conversation returned is that row, holding the two ids in sorted
\* order (user_id1 <= user_id2).
C4_CreationOnMiss ==
    /\ \A c \in Calls :
        /\ calls[c].inserts <= 1 /\ calls[c].queries <= 1
        /\ (HasResolved(c) /\ calls[c].inserts = 0 /\ ~ calls[c].cacheHit)
              => calls[c].privateChat \in MatchingChats(calls[c])
        /\ (HasResolved(c) /\ calls[c].inserts = 1)
              => /\ calls[c].privateChat \in private_chats
                 /\ calls[c].privateChat.user_id1 = SortPair(calls[c].senderId, calls[c].receiverId)[1]
                 /\ calls[c].privateChat.user_id2 = SortPair(calls[c].senderId, calls[c].receiverId)[2]
                 /\ ~ StrLess(JsToString(calls[c].privateChat.user_id2),
                              JsToString(calls[c].privateChat.user_id1))
    /\ Cardinality(private_chats) = Cardinality({c \in Calls : InsertDone(c)})

C4_Witness ==
    \E c \in Calls :
        /\ HasResolved(c) /\ calls[c].inserts = 1
        /\ calls[c].senderId = U2 /\ calls[c].receiverId = U1
        /\ calls[c].privateChat = ChatRow(1, U1, U2)
        /\ private_chats = {ChatRow(1, U1, U2)}

\* C5: fetchOrCreatePrivateChat(a, b) followed, after it returned and in the
\* same session, by fetchOrCreatePrivateChat(b, a): the second call is
\* served from the cache entry of the first, returns the same conversation
\* id, and the two calls send one insert at most (exactly one when the first
\* found nothing in the store).
C5_CrossOrderCacheSharing ==
    \A c1 \in Calls, c2 \in Calls :
        (/\ After(c1, c2) /\ HasResolved(c1)
         /\ calls[c1].session = calls[c2].session
         /\ CrossOrder(c1, c2) /\ InSequence(c2))
        => /\ HasResolved(c2)
           /\ calls[c2].privateChat.id = calls[c1].privateChat.id
           /\ calls[c1].inserts + calls[c2].inserts <= 1
           /\ calls[c2].queries = 0

C5_Witness ==
    \E c1 \in Calls, c2 \in Calls :
        /\ After(c1, c2) /\ HasResolved(c1)
        /\ calls[c1].session = calls[c2].session
        /\ CrossOrder(c1, c2) /\ InSequence(c2)
        /\ calls[c1].before = {}
        /\ calls[c1].inserts = 1 /\ calls[c2].inserts = 0
        /\ Cardinality(private_chats) = 1
        /\ calls[c2].privateChat.id = calls[c1].privateChat.id

\* C6: a conversation created in the store by resolving (X, Y) is found,
\* not created again, when (Y, X) is resolved afterwards in a session whose
\* cache does not hold it: the second resolution sends no insert and returns
\* a row of the same sorted pair (the same row, the pair having one row).
C6_CrossOrderStoreLookup ==
    \A c1 \in Calls, c2 \in Calls :
        (/\ After(c1, c2) /\ HasResolved(c1) /\ calls[c1].inserts = 1
         /\ CrossOrder(c1, c2) /\ ValidPair(c1)
         /\ ~ calls[c2].cacheHit)
        => /\ calls[c2].inserts = 0
           /\ HasResolved(c2) =>
                /\ calls[c2].privateChat \in private_chats
                /\ calls[c2].privateChat.user_id1 = calls[c1].privateChat.user_id1
                /\ calls[c2].privateChat.user_id2 = calls[c1].privateChat.user_id2
                /\ InSequence(c2) => calls[c2].privateChat.id = calls[c1].privateChat.id

C6_Witness ==
    \E c1 \in Calls, c2 \in Calls :
        /\ After(c1, c2) /\ HasResolved(c1) /\ calls[c1].inserts = 1
        /\ CrossOrder(c1, c2) /\ ValidPair(c1)
        /\ calls[c1].session # calls[c2].session
        /\ ~ calls[c2].cacheHit /\ HasResolved(c2) /\ calls[c2].queries = 1
        /\ calls[c2].privateChat.id = calls[c1].privateChat.id

\* Rows of private_chats for the same pair of ids.
RowsOfPair(r) == {x \in private_chats : x.user_id1 = r.user_id1 /\ x.user_id2 = r.user_id2}

\* C7 as claimed: in every reachable state the store holds at most one
\* conversation per unordered pair of participant ids.
C7_AtMostOneConversationPerPair ==
    \A r \in private_chats : Cardinality(RowsOfPair(r)) = 1

\* C7 as amended: the store holds more than one conversation for a pair of
\* participant ids only if two resolutions of that pair were in flight at
\* the same time.
C7_AtMostOneUnlessOverlapped ==
    \A r \in private_chats :
        (IsValidId(r.user_id1) /\ IsValidId(r.user_id2) /\ Cardinality(RowsOfPair(r)) > 1)
        => <<r.user_id1, r.user_id2>> \in overlapped

C7_Witness ==
    /\ overlapped = {}
    /\ \E c1 \in Calls, c2 \in Calls :
        /\ c1 # c2 /\ SamePair(c1, c2) /\ ValidPair(c1)
        /\ calls[c1].session # calls[c2].session
        /\ calls[c1].pc = "done" /\ calls[c2].pc = "done"
        /\ calls[c1].inserts = 1
        /\ Cardinality(RowsOfPair(calls[c1].privateChat)) = 1

\* A send for the pair of c whose insert may have been done.
OtherSends(c1, c2) ==
    {c \in Calls \ {c1, c2} : HasResolved(c) /\ calls[c].op = "send" /\ SamePair(c, c1)}

\* C8: sendNewPrivateChatMessage(a, b, content) followed, after it returned,
\* by fetchLastPrivateChatMessages for the same two participants in either
\* order, the resolutions of the pair being in sequence: the list returned
\* holds the message sent, and only it when no other send was made for the
\* pair.
C8_SendFetchRoundTrip ==
    \A c1 \in Calls, c2 \in Calls :
        (/\ After(c1, c2)
         /\ calls[c1].pc = "done" /\ calls[c1].op = "send"
         /\ calls[c2].pc = "done" /\ calls[c2].op = "fetch"
         /\ SamePair(c1, c2) /\ ValidPair(c1) /\ InSequence(c1))
        => /\ \E m \in calls[c2].result :
                /\ m.content = calls[c1].content
                /\ m.sender_id = calls[c1].senderId
                /\ m.chat_id = calls[c1].privateChat.id
           /\ OtherSends(c1, c2) = {} => Cardinality(calls[c2].result) = 1

C8_Witness ==
    \E c1 \in Calls, c2 \in Calls :
        /\ After(c1, c2)
        /\ calls[c1].pc = "done" /\ calls[c1].op = "send" /\ calls[c1].before = {}
        /\ calls[c2].pc = "done" /\ calls[c2].op = "fetch"
        /\ calls[c1].senderId = U1 /\ calls[c1].receiverId = U2
        /\ calls[c2].senderId = U2 /\ calls[c2].receiverId = U1
        /\ calls[c1].session # calls[c2].session
        /\ InSequence(c1)
        /\ Cardinality(calls[c2].result) = 1
        /\ \A m \in calls[c2].result : m.content = "hello" /\ m.sender_id = U1

\* C9 as claimed: when the insert of createPrivateChat fails, the resolver
\* queries the store once more before it gives up.
C9_CreationFailureRequery ==
    \A c \in Calls :
        (calls[c].pc = "failed" /\ calls[c].error = "create") => calls[c].queries = 2

\* C10 as claimed: a call given an empty or absent participant id fails
\* with an invalid-argument error, writes no cache entry and sends no select
\* and no insert.
C10_InvalidIdRejected ==
    \A c \in Calls :
        (Started(c) /\ ~ ValidPair(c))
        => /\ calls[c].pc = "failed" /\ calls[c].error = "InvalidArgument"
           /\ calls[c].queries = 0 /\ calls[c].inserts = 0 /\ calls[c].cacheWrites = 0

\* The resolution of call c ended with the error of its select or insert.
ResolutionFailed(c) == calls[c].error \in {"fetch", "create"}

\* Another call of the same session returned the conversation of c's key.
ResolvedByOther(c) ==
    \E x \in Calls \ {c} :
        /\ HasResolved(x) /\ calls[x].session = calls[c].session
        /\ cacheKey(calls[x].senderId, calls[x].receiverId)
             = cacheKey(calls[c].senderId, calls[c].receiverId)

\* What a failed resolution has left behind, and what a message request rests on.
FailedCallLeavesNoTrace ==
    \A c \in Calls :
        /\ ResolutionFailed(c)
             => /\ calls[c].pc = "failed"
                /\ calls[c].cacheWrites = 0 /\ calls[c].msgRequests = 0
                /\ ~ HasResolved(c) /\ calls[c].result = {}
                /\ ~ ResolvedByOther(c)
                     => cacheKey(calls[c].senderId, calls[c].receiverId)
                          \notin DOMAIN privateChatCache[calls[c].session]
        /\ calls[c].msgRequests > 0
             => /\ calls[c].msgRequests = 1
                /\ calls[c].privateChat \in private_chats
        /\ (/\ calls[c].pc = "done" /\ calls[c].op = "fetch"
            /\ MessagesOfChat(calls[c].privateChat.id) = {})
             => calls[c].result = {} /\ calls[c].error = ""

\* C11: when the select or the insert of fetchOrCreatePrivateChat fails, the
\* call ends with that error, has written nothing to the cache (the key is
\* absent unless another call put it there) and has sent no message insert
\* and no message select; a message request is only ever sent for a
\* conversation of the store; and a fetch that ends well on a conversation
\* without messages returns the empty list and no error.
C11_FailurePropagation == [] FailedCallLeavesNoTrace

C11_Witness ==
    \E c1 \in Calls, c2 \in Calls :
        /\ calls[c1].pc = "failed" /\ calls[c1].error = "create"
        /\ calls[c1].msgRequests = 0
        /\ After(c1, c2) /\ calls[c1].session = calls[c2].session /\ SameOrder(c1, c2)
        /\ calls[c2].pc = "done" /\ calls[c2].op = "fetch"
        /\ calls[c2].result = {} /\ calls[c2].error = ""
        /\ private_chat_messages = {}

KeyOf(c) == cacheKey(calls[c].senderId, calls[c].receiverId)

\* The keys whose resolution has returned in session s.
ResolvedKeys(s) == {KeyOf(c) : c \in {x \in Calls : HasResolved(x) /\ calls[x].session = s}}

\* In every state the keys of a session's cache are the keys of the
\* resolutions that have returned there, each holding a conversation of the
\* store; a call writes the cache at most once, when it resolves on a miss,
\* and not at all when the key's resolution had returned before it started.
CacheKeysAreResolvedKeys ==
    /\ \A s \in Sessions :
         /\ DOMAIN privateChatCache[s] = ResolvedKeys(s)
         /\ \A k \in DOMAIN privateChatCache[s] : privateChatCache[s][k] \in private_chats
    /\ \A c \in Calls :
         /\ calls[c].cacheWrites <= 1
         /\ calls[c].cacheWrites = 1 => HasResolved(c) /\ ~ calls[c].cacheHit
         /\ calls[c].cacheHit => calls[c].cacheWrites = 0
    /\ \A c1 \in Calls, c2 \in Calls :
         (/\ After(c1, c2) /\ HasResolved(c1)
          /\ calls[c1].session = calls[c2].session /\ KeyOf(c1) = KeyOf(c2))
         => calls[c2].cacheWrites = 0

\* No step removes a key, and a step that adds one is the return of a
\* resolution that missed the cache.
CacheKeysOnlyGrow ==
    \A s \in Sessions :
        /\ DOMAIN privateChatCache[s] \subseteq DOMAIN privateChatCache'[s]
        /\ DOMAIN privateChatCache'[s] # DOMAIN privateChatCache[s]
             => \E c \in Calls :
                  /\ calls[c].session = s /\ ~ HasResolved(c)
                  /\ calls'[c].cacheWrites = 1 /\ calls'[c].privateChat # NullChat
                  /\ DOMAIN privateChatCache'[s] = DOMAIN privateChatCache[s] \cup {KeyOf(c)}

\* C14: the set of keys of privateChatCache only grows; a key is added only
\* by fetchOrCreatePrivateChat when a resolution that missed the cache
\* returns, and stays from then on; the exported functions change the cache
\* in no other way.
C14_CacheLifecycle == [] CacheKeysAreResolvedKeys /\ [][CacheKeysOnlyGrow]_vars

C14_Witness ==
    \E c1 \in Calls, c2 \in Calls :
        /\ After(c1, c2) /\ HasResolved(c1) /\ HasResolved(c2)
        /\ calls[c1].session = calls[c2].session /\ KeyOf(c1) # KeyOf(c2)
        /\ DOMAIN privateChatCache[calls[c1].session] = {KeyOf(c1), KeyOf(c2)}

\* The calls whose insert created row r.
CreatorsOf(r) ==
    {c \in Calls : /\ calls[c].inserts = 1
                   /\ \/ calls[c].privateChat = r
                      \/ calls[c].pc = "createReplied" /\ calls[c].resp.chat = r}

\* c1 and c2 were running at the same time.
Concurrent(c1, c2) ==
    /\ c1 # c2 /\ Started(c1) /\ Started(c2)
    /\ c1 \notin calls[c2].before /\ c2 \notin calls[c1].before

\* Two rows of one pair have creators that ran at the same time.
DuplicatesComeFromOverlap ==
    \A r1 \in private_chats, r2 \in private_chats :
        (/\ r1 # r2 /\ r1.user_id1 = r2.user_id1 /\ r1.user_id2 = r2.user_id2
         /\ IsValidId(r1.user_id1) /\ IsValidId(r1.user_id2))
        => /\ <<r1.user_id1, r1.user_id2>> \in overlapped
           /\ \E c1 \in CreatorsOf(r1), c2 \in CreatorsOf(r2) :
                /\ Concurrent(c1, c2) /\ SamePair(c1, c2)
                /\ SortedIds(calls[c1]) = <<r1.user_id1, r1.user_id2>>
                /\ ~ calls[c1].cacheHit /\ ~ calls[c2].cacheHit
                /\ calls[c1].queries = 1 /\ calls[c2].queries = 1

\* C16: the store, which enforces no uniqueness, comes to hold two
\* conversations for one pair of participant ids exactly by the race of two
\* fetchOrCreatePrivateChat calls of that pair running at the same time:
\* each missed the cache, each got an empty select and each inserted its own
\* row. (That such a state is reached is C16_Witness.)
C16_DuplicateCreationRace == [] DuplicatesComeFromOverlap

\* The mount-time fetch of the chat view and a send submitted before it
\* returned, in one session, have left two rows for the pair.
C16_Witness ==
    \E c1 \in Calls, c2 \in Calls :
        /\ calls[c1].session = calls[c2].session /\ SameOrder(c1, c2) /\ ValidPair(c1)
        /\ HasResolved(c1) /\ calls[c1].op = "fetch"
        /\ HasResolved(c2) /\ calls[c2].op = "send"
        /\ calls[c1].inserts = 1 /\ calls[c2].inserts = 1
        /\ calls[c1].privateChat.id # calls[c2].privateChat.id
        /\ RowsOfPair(calls[c1].privateChat) = {calls[c1].privateChat, calls[c2].privateChat}

\* What a call with both ids equal has done.
SelfConversationResolved ==
    \A c \in Calls :
        (Started(c) /\ calls[c].senderId = calls[c].receiverId /\ IsValidId(calls[c].senderId))
        => /\ KeyOf(c) = calls[c].senderId.s \o <<Underscore>> \o calls[c].senderId.s
           /\ calls[c].error \in {"", "fetch", "create", "message"}
           /\ HasResolved(c)
                => /\ calls[c].privateChat \in private_chats
                   /\ calls[c].privateChat.user_id1 = calls[c].senderId
                   /\ calls[c].privateChat.user_id2 = calls[c].senderId
                   /\ KeyOf(c) \in DOMAIN privateChatCache[calls[c].session]
                   /\ InSequence(c)
                        => privateChatCache[calls[c].session][KeyOf(c)] = calls[c].privateChat
           /\ \A c2 \in Calls :
                (/\ After(c, c2) /\ HasResolved(c) /\ SameOrder(c, c2)
                 /\ calls[c].session = calls[c2].session)
                => /\ calls[c2].cacheHit /\ calls[c2].inserts = 0
                   /\ InSequence(c) => calls[c2].privateChat = calls[c].privateChat

\* C18: fetchOrCreatePrivateChat(a, a) is not turned away: on a miss it
\* creates a conversation whose two stored participants are a, caches it
\* under the key a_a, and a later call in the session returns it from the
\* cache.
C18_SelfConversation == [] SelfConversationResolved

C18_Witness ==
    \E c \in Calls, c2 \in Calls :
        /\ calls[c].senderId = U1 /\ calls[c].receiverId = U1
        /\ calls[c].inserts = 1 /\ calls[c].privateChat = ChatRow(1, U1, U1)
        /\ privateChatCache[calls[c].session] =
              [k \in {<<85, 49, 95, 85, 49>>} |-> ChatRow(1, U1, U1)]
        /\ After(c, c2) /\ SameOrder(c, c2) /\ calls[c].session = calls[c2].session
        /\ calls[c2].cacheHit /\ calls[c2].privateChat = ChatRow(1, U1, U1)

\* ------------------------------------------------------------------------
\* Properties of the chat view and its subscription (SpecView)
\* ------------------------------------------------------------------------

\* C12 as claimed: once the mount-time fetch has thrown, what the view shows
\* differs from what it shows after a fetch that returned an empty list
\* (no loader, no list item, the text that there are no messages yet).
C12_FailureShownDistinctly ==
    viewPc = "fetchFailed" => Rendered(messages, loadingMessages) # Rendered(<<>>, FALSE)

ChannelOpened == chatChannel.state # "none"

Shown(m) == \E i \in 1..Len(messages) : messages[i] = m

\* The channel belongs to the conversation the subscribe call resolved, a
\* row of the store for the sorted pair of its arguments; the caller holds
\* the unsubscribe function; and the handler has been called only with rows
\* of that conversation inserted after the channel was joined.
ChannelOfResolvedChat ==
    ChannelOpened =>
        /\ calls[MountCall].op = "subscribe" /\ calls[MountCall].pc = "done"
        /\ calls[MountCall].privateChat \in private_chats
        /\ chatChannel.chat_id = calls[MountCall].privateChat.id
        /\ <<calls[MountCall].privateChat.user_id1, calls[MountCall].privateChat.user_id2>>
              = SortedIds(calls[MountCall])
        /\ unsubscribeFromChat = "unsubscribe"
        /\ \A id \in chatChannel.delivered :
              \E m \in private_chat_messages :
                 /\ m.id = id /\ m.chat_id = chatChannel.chat_id
                 /\ m.id > chatChannel.joinedAt
                 /\ Shown(m)

\* Once unsubscribe() was called the handler is not called again.
NoCallbackAfterUnsubscribe ==
    chatChannel.state = "closed" => (chatChannel' = chatChannel /\ messages' = messages)

\* While the channel is joined, every row of its conversation inserted
\* since the join has been handed to the callback.
AllDueDelivered ==
    chatChannel.state = "joined" =>
        \A m \in private_chat_messages :
            (m.chat_id = chatChannel.chat_id /\ m.id > chatChannel.joinedAt)
            => m.id \in chatChannel.delivered

\* C15: subscribeToNewPrivateChatMessages(a, b, callback) resolves the
\* conversation of (a, b) and returns an unsubscribe function; the callback
\* is called only with rows of that conversation inserted while subscribed,
\* and with each of them unless unsubscribe() comes first (time and again
\* none is outstanding); after unsubscribe() it is not called again.
C15_SubscriptionContract ==
    /\ [] ChannelOfResolvedChat
    /\ [][NoCallbackAfterUnsubscribe]_vars
    /\ []<> AllDueDelivered

\* A message was notified and pushed, then the view was unmounted and
\* unsubscribed.
C15_Witness ==
    /\ chatChannel.state = "closed" /\ ~ mounted
    /\ chatChannel.delivered # {}
    /\ \E m \in private_chat_messages :
         m.id \in chatChannel.delivered /\ m.chat_id = chatChannel.chat_id /\ Shown(m)

\* The mount-time fetch and the subscription are on the same conversation.
SameChatFetchedAndSubscribed ==
    /\ chatChannel.state \in {"joined", "closed"}
    /\ fetched.chat_id = chatChannel.chat_id

\* Row m was inserted after the select of the mount-time fetch was answered
\* and before the realtime server took the subscription.
InBoundaryWindow(m) == fetched.at < m.id /\ m.id <= chatChannel.joinedAt

\* C17: the view fetches first and subscribes afterwards, and its list is
\* what the fetch returned followed by every notified row, appended as it
\* comes with no look at the ids. So a row of the conversation is in the
\* list, or is still due on the channel, or was inserted in the boundary
\* window, and a row of the window is not in the list: it is missed.
C17_FetchSubscribeBoundary ==
    /\ Len(messages) = Cardinality(fetched.ids) + Cardinality(chatChannel.delivered)
    /\ \A i \in 1..Len(messages) :
         IF i <= Cardinality(fetched.ids) THEN messages[i].id \in fetched.ids
         ELSE messages[i].id \in chatChannel.delivered
    /\ SameChatFetchedAndSubscribed =>
         \A m \in private_chat_messages :
            m.chat_id = chatChannel.chat_id =>
               /\ \/ Shown(m)
                  \/ m.id > chatChannel.joinedAt /\ m.id \notin chatChannel.delivered
                  \/ InBoundaryWindow(m)
               /\ InBoundaryWindow(m) => ~ Shown(m)

C17_Witness ==
    /\ SameChatFetchedAndSubscribed /\ chatChannel.state = "joined"
    /\ \E m \in private_chat_messages :
         /\ m.chat_id = chatChannel.chat_id /\ InBoundaryWindow(m) /\ ~ Shown(m)
         /\ m.sender_id = OtherId
    /\ Notifiable(chatChannel) = {}

SendDone(c) == calls[c].op = "send" /\ calls[c].pc = "done"

\* Row m is what send c inserted: its sender is the senderId passed and its
\* conversation a row of the store whose participants are the sorted pair
\* of the ids passed, the sender among them.
InsertedBy(m, c) ==
    /\ m.sender_id = calls[c].senderId /\ m.content = calls[c].content
    /\ m.chat_id = calls[c].privateChat.id
    /\ calls[c].privateChat \in private_chats
    /\ <<calls[c].privateChat.user_id1, calls[c].privateChat.user_id2>> = SortedIds(calls[c])
    /\ m.sender_id \in {calls[c].privateChat.user_id1, calls[c].privateChat.user_id2}

\* C19: every row of private_chat_messages was inserted by a
\* sendNewPrivateChatMessage(senderId, receiverId, content) with sender_id =
\* senderId and chat_id the id of a conversation of the sorted pair; and the
\* chat view passes the authenticated user's id (null while it has not
\* arrived) as senderId, never the id of the route.
C19_SenderAndConversation ==
    /\ Cardinality(private_chat_messages) = Cardinality({c \in Calls : SendDone(c)})
    /\ \A m \in private_chat_messages : \E c \in Calls : SendDone(c) /\ InsertedBy(m, c)
    /\ \A c \in Calls : SendDone(c) => \E m \in private_chat_messages : InsertedBy(m, c)
    /\ \A c \in Calls :
         (calls[c].op = "send" /\ calls[c].session = "s1")
         => /\ calls[c].senderId \in {authUser, JsNull}
            /\ calls[c].senderId # OtherId
            /\ calls[c].receiverId = OtherId

C19_Witness ==
    \E c \in Calls :
        /\ SendDone(c) /\ calls[c].session = "s1" /\ calls[c].senderId = ViewUser
        /\ calls[c].privateChat = ChatRow(1, ViewUser, OtherId)
        /\ private_chat_messages =
              {[id |-> 1, chat_id |-> 1, sender_id |-> ViewUser, content |-> "hello"]}

\* ------------------------------------------------------------------------
\* Properties of the payload handlers (SpecSub)
\* ------------------------------------------------------------------------

\* C13 as claimed: for the message, post and comment subscriptions alike an
\* exception thrown by the consumer callback is contained in the handler:
\* none leaves it, and the subscription stays active for the notifications
\* that follow.
C13_CallbackIsolation ==
    \A k \in Kinds :
        /\ subs[k].escaped = 0
        /\ subs[k].state # "broken"
        /\ subs[k].invoked > 0 => subs[k].state \in {"on", "closed"}

\* ------------------------------------------------------------------------
\* Properties of normalizePath (SpecPath)
\* ------------------------------------------------------------------------

\* '<bucket>/'
BucketPrefix(bucket) == bucket.s \o <<Slash>>

\* C20 as claimed: for every path and non-empty bucket (a bucket name, so
\* not ending in '/') the result of normalizePath(path, bucket) does not
\* start with '<bucket>/', a path without that prefix comes back unchanged,
\* and a second application changes nothing.
C20_NormalizePath ==
    (/\ npPc = "twice"
     /\ IsStr(npArgs.path)
     /\ IsStr(npArgs.bucket) /\ npArgs.bucket.s # <<>>
     /\ npArgs.bucket.s[Len(npArgs.bucket.s)] # Slash)
    => /\ IsStr(npOut)
       /\ ~ StartsWith(npOut.s, BucketPrefix(npArgs.bucket))
       /\ ~ StartsWith(npArgs.path.s, BucketPrefix(npArgs.bucket)) => npOut = npArgs.path
       /\ npAgain = npOut

\* ------------------------------------------------------------------------
\* Stability of the cached conversation (Spec)
\* ------------------------------------------------------------------------

\* What the cache of call c's session holds under c's key.
CachedFor(c) ==
    getFromPrivateChatCache(privateChatCache[calls[c].session],
                            calls[c].senderId, calls[c].receiverId)

\* C27 as stated: the conversation a resolution put into, or found in, the
\* cache is the one the cache holds under that key from then on, overlapping
\* resolutions of the pair included.
C27_CachedConversationStability ==
    \A c \in Calls : HasResolved(c) => CachedFor(c).id = calls[c].privateChat.id

\* The entries of the pairs resolved in sequence are the ones their
\* resolutions returned.
CachedIsReturnedInSequence ==
    \A c \in Calls :
        (HasResolved(c) /\ InSequence(c)) => CachedFor(c) = calls[c].privateChat

\* A step changes an entry only as the return of a resolution of that key
\* that missed the cache while another resolution of the pair was in flight.
EntryKeptUnlessOverlapped ==
    \A s \in Sessions : \A k \in DOMAIN privateChatCache[s] :
        /\ k \in DOMAIN privateChatCache'[s]
        /\ privateChatCache'[s][k] # privateChatCache[s][k]
             => \E c \in Calls :
                  /\ calls[c].session = s /\ KeyOf(c) = k
                  /\ ~ HasResolved(c) /\ calls'[c].cacheWrites = 1
                  /\ ~ calls'[c].cacheHit
                  /\ SortedIds(calls[c]) \in overlapped'
                  /\ privateChatCache'[s][k] = calls'[c].privateChat

\* C27, amended: an entry of privateChatCache is overwritten with another
\* conversation only by a resolution of its pair that overlapped with
\* another one; for a pair whose resolutions ran in sequence the entry is
\* the conversation every one of them returned.
C27_StableUnlessOverlapped ==
    [] CachedIsReturnedInSequence /\ [][EntryKeptUnlessOverlapped]_vars

\* Two overlapping resolutions of one pair in one session have both
\* returned: the cache holds the second's conversation, not the first's.
C27_Witness ==
    \E c1 \in Calls, c2 \in Calls :
        /\ calls[c1].session = calls[c2].session /\ KeyOf(c1) = KeyOf(c2)
        /\ Concurrent(c1, c2) /\ HasResolved(c1) /\ HasResolved(c2)
        /\ calls[c1].cacheWrites = 1 /\ calls[c2].cacheWrites = 1
        /\ CachedFor(c1) = calls[c2].privateChat
        /\ calls[c1].privateChat.id # calls[c2].privateChat.id

\* ------------------------------------------------------------------------
\* Subscriptions and the component's lifetime (SpecView)
\* ------------------------------------------------------------------------

\* C28: once the chat view is unmounted, the realtime channel its instance
\* opened is not active, whether it was opened before the unmount or by the
\* onMounted hook going on after it.
C28_NoSubscriptionOutlivesComponent ==
    ~ mounted => chatChannel.state \notin {"joining", "joined"}

\* ------------------------------------------------------------------------
\* The comment list under realtime events (SpecComments)
\* ------------------------------------------------------------------------

\* The entries of list whose id is not id, in their order.
WithOtherIds(list, id) == SelectSeq(list, LAMBDA c : c.id # id)

\* The id the event is about.
EventId(evt) == IF evt.type = "DELETE" THEN evt.oldRow.id ELSE evt.newRow.id

\* What the handling of the event commentEvt' did to the list.
CommentEventEffect ==
    LET evt == commentEvt'
        id == EventId(evt)
        held == {i \in 1..Len(comments) : comments[i].id = id}
    IN  /\ evt.type = "INSERT"
             => /\ Len(comments') = Len(comments) + 1
                /\ comments'[1] = evt.newRow
                /\ \A i \in 1..Len(comments) : comments'[i + 1] = comments[i]
        /\ evt.type = "UPDATE"
             => /\ Len(comments') = Len(comments)
                /\ \A i \in 1..Len(comments) :
                     comments'[i] = comments[i] \/ (i \in held /\ comments'[i] = evt.newRow)
                /\ held # {} => \E i \in held : comments'[i] = evt.newRow
                /\ held = {} => comments' = comments
        /\ evt.type = "DELETE"
             => /\ \A i \in 1..Len(comments') : comments'[i].id # id
                /\ comments' = WithOtherIds(comments, id)
        /\ WithOtherIds(comments', id) = WithOtherIds(comments, id)

\* C21: for every realtime event the comment handler of the post detail
\* view handles, INSERT puts newRow at the front and grows the list by one,
\* UPDATE replaces in place the entry with newRow's id and changes nothing
\* when there is none, DELETE removes every entry with oldRow's id, and the
\* entries with other ids keep their values and their order.
C21_CommentListMaintenance == [][CommentEventEffect]_vars

\* An UPDATE has replaced an entry that is not the first of a full list.
C21_Witness ==
    /\ commentEvt.type = "UPDATE"
    /\ Len(comments) = MaxComments
    /\ \E i \in 2..Len(comments) :
         /\ comments[i] = commentEvt.newRow
         /\ \A j \in 1..(i - 1) : comments[j].id # commentEvt.newRow.id

\* ------------------------------------------------------------------------
\* Release of the preview object URLs (SpecPreview)
\* ------------------------------------------------------------------------

\* C22: on the three pages, once the component is unmounted every object
\* URL a file-change handler created has been revoked, and, a new file's
\* preview replacing the slot's revoked previous one, there is never more
\* than one unrevoked URL per slot.
C22_PreviewUrlsReleased ==
    /\ ~ pvMounted => objectUrls.live = {}
    /\ Cardinality(objectUrls.live) <= Cardinality(SlotsOf(pvPage))

\* ------------------------------------------------------------------------
\* Arguments are checked before the request (SpecService)
\* ------------------------------------------------------------------------

\* The value is not there: left out or null.
Absent(v) == v.t \in {"undefined", "null"}

\* The call lacks an argument the function requires.
LacksRequired(call) ==
    IF call.fn = "createPost" THEN ~ call.payload \/ Absent(call.a)
    ELSE IF call.fn = "deletePost" THEN Absent(call.a)
    ELSE IF call.fn = "insertComment"
         THEN ~ call.payload \/ Absent(call.a) \/ Absent(call.b)
    ELSE call.fn = "uploadFile" /\ (Absent(call.a) \/ Absent(call.b))

\* A step that calls a service without a required argument ends with the
\* function's own error, sends nothing and leaves the backend as it was.
RejectedBeforeRequest ==
    (svCalls' = svCalls + 1 /\ LacksRequired(svCall'))
    => /\ svCall'.pc = "threw"
       /\ svRequests' = svRequests
       /\ backend' = backend

\* A call that threw at its check is never answered by the backend.
ThrownStaysThrown ==
    svCall.pc = "threw" => (svCalls' = svCalls => UNCHANGED <<svCall, svRequests, backend>>)

\* C23: createPost without a payload or sender_id, deletePost without an
\* id, insertComment without post_id or content and uploadFile without a
\* path or file throw before any request is sent: the number of requests
\* and the backend's state are what they were.
C23_ValidatedBeforeRequest ==
    [][RejectedBeforeRequest /\ ThrownStaysThrown]_vars

\* After a call that was carried out, insertComment was called without a
\* content: it threw, and the one request sent is the first call's.
C23_Witness ==
    /\ svCalls = 2 /\ svRequests = 1
    /\ backend # EmptyBackend
    /\ svCall.fn = "insertComment" /\ svCall.payload
    /\ ~ Absent(svCall.a) /\ Absent(svCall.b)
    /\ svCall.pc = "threw"

\* ------------------------------------------------------------------------
\* The route guard (SpecGuard, SpecGuardLive)
\* ------------------------------------------------------------------------

\* A navigation let through to a route marked requiresAuth had a user
\* returned by the lookup made for it.
AuthRouteAllowedOnlyWithUser ==
    (navPc = "allowed" /\ RequiresAuth(navTo))
    => (navLog.user = "user" /\ navLog.lookups > 0)

\* Without a user, or with the lookup throwing, the guard of a requiresAuth
\* route sends to Login with the target's full path as the redirect query.
SentToLoginWithFullPath ==
    (navPc = "lookup" /\ RequiresAuth(navTo) /\ session # "user")
    => (navPc' = "guard" /\ Head(navTo') = LoginPath /\ Tail(navTo') = navTo)

\* A route marked neither way is let through with no lookup.
UnmarkedAllowedWithoutLookup ==
    (navPc = "guard" /\ Routes[Head(navTo)] = "")
    => (navPc' = "allowed" /\ navTo' = navTo /\ navLog'.lookups = navLog.lookups)

\* C24: the guard lets a navigation through to a route marked requiresAuth
\* only when the auth lookup returned a user; when it returned none or
\* threw, the guard redirects to Login with the target's full path in the
\* redirect query; a route marked neither requiresAuth nor guestOnly is let
\* through without a lookup.
C24_RouteGuardSafety ==
    /\ [] AuthRouteAllowedOnlyWithUser
    /\ [][SentToLoginWithFullPath /\ UnmarkedAllowedWithoutLookup]_vars

\* A visitor without a session asked for /crear-post and stands on Login
\* with that path as the redirect query.
C24_Witness ==
    /\ session = "none" /\ navLog.from = <<"/crear-post">>
    /\ navPc = "allowed" /\ navTo = <<LoginPath, "/crear-post">>
    /\ navLog.redirects = 1 /\ navLog.lookups = 2

\* The guard's redirects of one navigation are at most one per redirect
\* query of the location it started with, and one more.
RedirectsBounded == navLog.redirects <= Len(navLog.from)

\* A user sent to a guestOnly route goes on to the redirect query's
\* location, or to '/' without one.
GuestRouteLeftForRedirect ==
    (navPc = "lookup" /\ GuestOnly(navTo) /\ session = "user")
    => /\ navPc' = "guard"
       /\ navTo' = IF Len(navTo) > 1 THEN Tail(navTo) ELSE <<"/">>

\* C25: with what the auth lookup answers held fixed, every navigation
\* comes to rest on a route the guard allows after a bounded number of
\* redirects; a user sent to a guestOnly route is redirected to the redirect
\* query's value or '/', for every redirect value naming a route of the
\* table, '/login' and '/register' included.
C25_RouteGuardTermination ==
    /\ [] RedirectsBounded
    /\ [][GuestRouteLeftForRedirect]_vars
    /\ <>[] (navPc = "allowed" /\ (RequiresAuth(navTo) => session = "user")
                               /\ (GuestOnly(navTo) => session # "user"))

\* A user asked for /login?redirect=/register: sent on to /register, from
\* there to '/', which is allowed.
C25_Witness ==
    /\ session = "user" /\ navLog.from = <<LoginPath, "/register">>
    /\ navPc = "allowed" /\ navTo = <<"/">>
    /\ navLog.redirects = 2

\* ------------------------------------------------------------------------
\* Owner-only editing in the post detail view (SpecDetail)
\* ------------------------------------------------------------------------

NoLoadInFlight == \A l \in Loads : loads[l].pc \in {"idle", "done"}

\* C29: with no load in flight, the posts list is empty when the auth user
\* has no id, and otherwise holds only posts whose user_email is the
\* current user's email: a load started for an earlier user has not
\* overwritten the list after the user changed.
C29_PostsFollowUser ==
    NoLoadInFlight
    => /\ perfilUser.id = JsNull => posts = {}
       /\ \A p \in posts : p.user_email = perfilUser.email

====
